---- MODULE Spec2Model ----
(***************************************************************************)
(* A model of the SmartCut edit-plan and timeline-document engine.         *)
(*                                                                         *)
(* Times are integer ticks: the code's float seconds are modelled by exact *)
(* integers, so the arithmetic of the model is the arithmetic of the code  *)
(* on values that floats represent exactly.  Strings are TLA+ strings,     *)
(* joined with \o as the code joins them.  The project documents hold      *)
(* integer microseconds; a microsecond is TicksPerMicrosecond ticks, so a  *)
(* time in seconds may fall between two microseconds and int() cuts it.    *)
(***************************************************************************)
EXTENDS Integers, Sequences, FiniteSets, TLC

VARIABLES
    pc,            \* position of the running pipeline
    words,         \* Transcription.get_all_words(): <<[word, start, end]>>
    threshold,     \* silence_threshold
    oracle,        \* the groups the duplicate oracle answers with
    duration,      \* Transcription.duration
    paragraphs,    \* list[Paragraph]
    cut_plan,      \* <<CutPlan>> once build_cut_plan has run, <<>> before
    keep_segments, \* the keep segments captions are aligned to
    max_words,     \* group_words_into_lines: max_words
    max_chars,     \* group_words_into_lines: max_chars
    timeline_words,\* the words on the compressed clock
    subtitle_lines,\* the caption lines
    disk,          \* the files of the drafts directory: <<directory, file>> -> document
    uuids,         \* how many identifiers generate_uuid has drawn
    clock,         \* what int(time.time()) reads
    draft,         \* <<the CapCutDraft>> being built, <<>> if none
    original,      \* <<the CapCutProject>> a tool loaded, <<>> before
    project,       \* <<the CapCutProject>> a tool works on, <<>> before
    tool,          \* the call in progress: its arguments, locals and result
    media          \* the video files that exist

analyzeVars == <<threshold, oracle, duration, paragraphs, cut_plan>>
subtitleVars == <<keep_segments, max_words, max_chars, timeline_words, subtitle_lines>>
projectVars == <<disk, uuids, clock, draft, original, project, tool, media>>
otherThanAnalyze == <<subtitleVars, projectVars>>
otherThanSubtitles == <<analyzeVars, projectVars>>
vars == <<pc, words, analyzeVars, subtitleVars, projectVars>>

(***************************************************************************)
(* Bounds of the model.                                                    *)
(***************************************************************************)
MaxTime == 3
MaxWords == 3
MaxThreshold == 2
MaxGroups == 2
MaxClipWords == 3
MaxSegments == 2
MaxLineLimit == 2
MaxChars == 4
MaxClock == 2
MaxDraftMaterials == 1
MaxDraftSegments == 2
TicksPerMicrosecond == 2
MaxDraftTexts == 1
MaxProjectIds == 4
MaxParagraphs == 3
MaxCaptions == 3
MaxFolders == 3

(***************************************************************************)
(* Program constants.                                                      *)
(***************************************************************************)
SUBTITLE_MAX_WORDS == 8
SUBTITLE_MAX_CHARS == 45
\* TextStyle.position_y and the position the captions alternate with, in tenths.
DefaultPositionY == 8
TopPositionY == 2

(***************************************************************************)
(* Helpers over sequences.                                                 *)
(***************************************************************************)
SeqsUpTo(S, n) == UNION {[1..k -> S] : k \in 0..n}

RECURSIVE SumSeq(_)
SumSeq(s) == IF s = <<>> THEN 0 ELSE Head(s) + SumSeq(Tail(s))

\* " ".join(texts)
RECURSIVE JoinSpace(_)
JoinSpace(texts) ==
    IF texts = <<>> THEN ""
    ELSE IF Len(texts) = 1 THEN texts[1]
    ELSE texts[1] \o " " \o JoinSpace(Tail(texts))

(***************************************************************************)
(* Transcript Segmenter: find_paragraphs.                                  *)
(***************************************************************************)
\* The text of the word at position i of a transcript.
WordText(i) == <<"w1", "w2", "w3", "w4", "w5">>[i]

\* Paragraph(id, start, end, text, action, reason, group_id=None); the
\* Optional[int] group_id is <<>> for None and <<k>> for k.
\* A paragraph that ends where its first word ends.
MkParagraphFirstWordEnd(id, ws, action, reason, gid) ==
    [id |-> id,
     start |-> ws[1].start,
     end |-> ws[1].end,
     text |-> JoinSpace([k \in 1..Len(ws) |-> ws[k].word]),
     action |-> action,
     reason |-> reason,
     group_id |-> gid]

MkParagraph(id, ws, action, reason, gid) ==
    [id |-> id,
     start |-> ws[1].start,
     end |-> ws[Len(ws)].end,
     text |-> JoinSpace([k \in 1..Len(ws) |-> ws[k].word]),
     action |-> action,
     reason |-> reason,
     group_id |-> gid]

\* The loop of find_paragraphs from word i on: ps are the paragraphs closed so
\* far (their count is paragraph_id), cur is current_words.
RECURSIVE FindLoop(_, _, _, _, _)
FindLoop(ws, thr, i, ps, cur) ==
    IF i > Len(ws)
    THEN \* "Add last paragraph"
         IF cur # <<>>
         THEN Append(ps, MkParagraph(Len(ps), cur, "keep", "", <<>>))
         ELSE ps
    ELSE LET cur1 == Append(cur, ws[i])
         IN  IF i < Len(ws) /\ ws[i + 1].start - ws[i].end >= thr
             THEN FindLoop(ws, thr, i + 1,
                           Append(ps, MkParagraph(Len(ps), cur1, "keep", "", <<>>)),
                           <<>>)
             ELSE FindLoop(ws, thr, i + 1, ps, cur1)

\* find_paragraphs without the flush of the pending group after the loop.
FindParagraphsNoFlush(ws, thr) ==
    IF ws = <<>> THEN <<>>
    ELSE LET all == FindLoop(ws, thr, 1, <<>>, <<>>)
         IN  SubSeq(all, 1, Len(all) - 1)

find_paragraphs(ws, thr) ==
    IF ws = <<>> THEN <<>> ELSE FindLoop(ws, thr, 1, <<>>, <<>>)

(***************************************************************************)
(* Duplicate Resolver: detect_duplicates_in_paragraphs.                    *)
(*                                                                         *)
(* A DuplicateGroup is [block_ids, keep, remove, reason]; block_ids and    *)
(* remove are read only by iteration into a set and a dict, so they are    *)
(* sets here.  The oracle's answer is the sequence duplicate_result.groups.*)
(***************************************************************************)
\* remove_ids after the loop over the groups.
RemoveIds(groups) == UNION {groups[i].remove : i \in DOMAIN groups}

\* The keys of group_map after the loop over the groups.
GroupMapKeys(groups) == UNION {groups[i].block_ids : i \in DOMAIN groups}

\* group_map[id] had the first group kept its entry.
GroupMapGetFirst(groups, id) ==
    LET holders == {i \in DOMAIN groups : id \in groups[i].block_ids}
    IN  groups[CHOOSE i \in holders : \A j \in holders : i <= j]

\* group_map[id]: a later group overwrites an earlier one's entry.
GroupMapGet(groups, id) ==
    LET holders == {i \in DOMAIN groups : id \in groups[i].block_ids}
    IN  groups[CHOOSE i \in holders : \A j \in holders : j <= i]

\* The body of the loop with the survivor given its group's keep id as group_id.
UpdateParagraphKeepId(p, groups) ==
    IF p.id \in RemoveIds(groups)
    THEN IF p.id \in GroupMapKeys(groups)
         THEN [p EXCEPT !.action = "remove",
                        !.reason = "duplicate_take: " \o GroupMapGet(groups, p.id).reason,
                        !.group_id = <<GroupMapGet(groups, p.id).keep>>]
         ELSE [p EXCEPT !.action = "remove",
                        !.reason = "duplicate_take",
                        !.group_id = <<>>]
    ELSE IF p.id \in GroupMapKeys(groups)
         THEN [p EXCEPT !.action = "keep",
                        !.reason = "best_take",
                        !.group_id = <<GroupMapGet(groups, p.id).keep>>]
         ELSE p

\* The body of the loop "for p in paragraphs".
UpdateParagraph(p, groups) ==
    IF p.id \in RemoveIds(groups)
    THEN IF p.id \in GroupMapKeys(groups)
         THEN [p EXCEPT !.action = "remove",
                        !.reason = "duplicate_take: " \o GroupMapGet(groups, p.id).reason,
                        !.group_id = <<GroupMapGet(groups, p.id).keep>>]
         ELSE [p EXCEPT !.action = "remove",
                        !.reason = "duplicate_take",
                        !.group_id = <<>>]
    ELSE IF p.id \in GroupMapKeys(groups)
         THEN [p EXCEPT !.action = "keep",
                        !.reason = "best_take",
                        !.group_id = <<p.id>>]
         ELSE p

detect_duplicates_in_paragraphs(ps, groups) ==
    IF ps = <<>> THEN ps
    ELSE [i \in DOMAIN ps |-> UpdateParagraph(ps[i], groups)]

(***************************************************************************)
(* Cut-Plan Builder: build_cut_plan.                                       *)
(***************************************************************************)
\* sorted(paragraphs, key=lambda p: p.start): a stable sort.
RECURSIVE InsertByStart(_, _)
InsertByStart(sorted, p) ==
    IF sorted = <<>> THEN <<p>>
    ELSE IF sorted[Len(sorted)].start <= p.start THEN Append(sorted, p)
    ELSE Append(InsertByStart(SubSeq(sorted, 1, Len(sorted) - 1), p),
                sorted[Len(sorted)])

RECURSIVE SortLoop(_, _)
SortLoop(ps, acc) ==
    IF ps = <<>> THEN acc ELSE SortLoop(Tail(ps), InsertByStart(acc, Head(ps)))

SortedByStart(ps) == SortLoop(ps, <<>>)

\* CutSegment(start, end, start_word="", end_word="", reason=None); the
\* Optional[str] reason is <<>> for None and <<r>> for r.
MkCutSegment(start, end, start_word, end_word, reason) ==
    [start |-> start, end |-> end, start_word |-> start_word,
     end_word |-> end_word, reason |-> reason]

\* paragraph_words of a kept paragraph.
ParagraphWords(ws, p) ==
    SelectSeq(ws, LAMBDA w : p.start <= w.start /\ w.start <= p.end)

KeepSegmentOf(ws, p) ==
    LET pw == ParagraphWords(ws, p)
    IN  MkCutSegment(p.start, p.end,
                     IF pw # <<>> THEN pw[1].word ELSE "",
                     IF pw # <<>> THEN pw[Len(pw)].word ELSE "",
                     <<>>)

\* The loop with prev_end advanced by kept paragraphs only.
RECURSIVE CutLoopPrevEndOnKeep(_, _, _, _)
CutLoopPrevEndOnKeep(ps, ws, thr, st) ==
    IF ps = <<>> THEN st
    ELSE LET p == Head(ps)
             gap == p.start - st.prev_end >= thr
             rem1 == IF gap
                     THEN Append(st.remove_segments,
                                 MkCutSegment(st.prev_end, p.start, "", "",
                                              <<"long_silence">>))
                     ELSE st.remove_segments
             sil1 == IF gap THEN st.silences_removed + 1 ELSE st.silences_removed
         IN  IF p.action = "keep"
             THEN CutLoopPrevEndOnKeep(Tail(ps), ws, thr,
                          [keep_segments |-> Append(st.keep_segments, KeepSegmentOf(ws, p)),
                           remove_segments |-> rem1,
                           prev_end |-> p.end,
                           duplicates_removed |-> st.duplicates_removed,
                           silences_removed |-> sil1])
             ELSE CutLoopPrevEndOnKeep(Tail(ps), ws, thr,
                          [keep_segments |-> st.keep_segments,
                           remove_segments |->
                               Append(rem1, MkCutSegment(p.start, p.end, "", "",
                                                         <<p.reason>>)),
                           prev_end |-> st.prev_end,
                           duplicates_removed |-> st.duplicates_removed + 1,
                           silences_removed |-> sil1])

\* The loop "for p in sorted_paragraphs"; st holds the locals of the function.
RECURSIVE CutLoop(_, _, _, _)
CutLoop(ps, ws, thr, st) ==
    IF ps = <<>> THEN st
    ELSE LET p == Head(ps)
             gap == p.start - st.prev_end >= thr
             rem1 == IF gap
                     THEN Append(st.remove_segments,
                                 MkCutSegment(st.prev_end, p.start, "", "",
                                              <<"long_silence">>))
                     ELSE st.remove_segments
             sil1 == IF gap THEN st.silences_removed + 1 ELSE st.silences_removed
         IN  IF p.action = "keep"
             THEN CutLoop(Tail(ps), ws, thr,
                          [keep_segments |-> Append(st.keep_segments, KeepSegmentOf(ws, p)),
                           remove_segments |-> rem1,
                           prev_end |-> p.end,
                           duplicates_removed |-> st.duplicates_removed,
                           silences_removed |-> sil1])
             ELSE CutLoop(Tail(ps), ws, thr,
                          [keep_segments |-> st.keep_segments,
                           remove_segments |->
                               Append(rem1, MkCutSegment(p.start, p.end, "", "",
                                                         <<p.reason>>)),
                           prev_end |-> p.end,
                           duplicates_removed |-> st.duplicates_removed + 1,
                           silences_removed |-> sil1])

\* sum(s.end - s.start for s in segments)
SpanSum(segs) == SumSeq([i \in DOMAIN segs |-> segs[i].end - segs[i].start])

\* The plan with the end of the last paragraph taken for the kept duration.
PlanFromKeptToEnd(ps, ws, dur, thr) ==
    LET st == CutLoop(ps, ws, thr,
                      [keep_segments |-> <<>>, remove_segments |-> <<>>,
                       prev_end |-> 0, duplicates_removed |-> 0,
                       silences_removed |-> 0])
    IN  [keep_segments |-> st.keep_segments,
         remove_segments |-> st.remove_segments,
         stats |-> [original_duration |-> dur,
                    kept_duration |-> st.prev_end,
                    removed_duration |-> SpanSum(st.remove_segments),
                    duplicates_removed |-> st.duplicates_removed,
                    silences_removed |-> st.silences_removed]]

\* The plan build_cut_plan returns from the paragraphs in the order ps.
PlanFrom(ps, ws, dur, thr) ==
    LET st == CutLoop(ps, ws, thr,
                      [keep_segments |-> <<>>, remove_segments |-> <<>>,
                       prev_end |-> 0, duplicates_removed |-> 0,
                       silences_removed |-> 0])
    IN  [keep_segments |-> st.keep_segments,
         remove_segments |-> st.remove_segments,
         stats |-> [original_duration |-> dur,
                    kept_duration |-> SpanSum(st.keep_segments),
                    removed_duration |-> SpanSum(st.remove_segments),
                    duplicates_removed |-> st.duplicates_removed,
                    silences_removed |-> st.silences_removed]]

Reverse(s) == [i \in DOMAIN s |-> s[Len(s) + 1 - i]]

\* build_cut_plan with the paragraphs sorted with reverse=True.
BuildCutPlanDescending(ps, ws, dur, thr) ==
    PlanFrom(Reverse(SortedByStart(ps)), ws, dur, thr)

build_cut_plan(ps, ws, dur, thr) == PlanFrom(SortedByStart(ps), ws, dur, thr)

(***************************************************************************)
(* Timeline Remapper: map_words_to_timeline.                               *)
(***************************************************************************)
Min(a, b) == IF a <= b THEN a ELSE b

\* segment_words without the lower bound of the filter.
SegmentWordsNoLowerBound(ws, seg) ==
    SelectSeq(ws, LAMBDA w : w.start < seg.end)

\* segment_words: the words that fall within the segment.
SegmentWords(ws, seg) ==
    SelectSeq(ws, LAMBDA w : seg.start <= w.start /\ w.start < seg.end)

\* The timeline word of one word of a segment, without the clamp of its end to
\* the segment's bounds.
TimelineWordUnclamped(w, seg, offset) ==
    [word |-> w.word,
     start |-> offset + (w.start - seg.start),
     end |-> offset + (w.end - seg.start)]

\* The body of the loop "for word in segment_words".
TimelineWord(w, seg, offset) ==
    [word |-> w.word,
     start |-> offset + (w.start - seg.start),
     end |-> offset + Min(w.end - seg.start, seg.end - seg.start)]

\* The loop with timeline_offset advanced by the segment's end.
RECURSIVE MapLoopOffsetBySegmentEnd(_, _, _, _)
MapLoopOffsetBySegmentEnd(ws, segs, offset, acc) ==
    IF segs = <<>> THEN acc
    ELSE LET seg == Head(segs)
             sw == SegmentWords(ws, seg)
         IN  MapLoopOffsetBySegmentEnd(ws, Tail(segs), offset + seg.end,
                     acc \o [i \in DOMAIN sw |-> TimelineWord(sw[i], seg, offset)])

\* The loop "for segment in keep_segments"; offset is timeline_offset and acc
\* is timeline_words.
RECURSIVE MapLoop(_, _, _, _)
MapLoop(ws, segs, offset, acc) ==
    IF segs = <<>> THEN acc
    ELSE LET seg == Head(segs)
             sw == SegmentWords(ws, seg)
         IN  MapLoop(ws, Tail(segs), offset + (seg.end - seg.start),
                     acc \o [i \in DOMAIN sw |-> TimelineWord(sw[i], seg, offset)])

map_words_to_timeline(ws, segs) == MapLoop(ws, segs, 0, <<>>)

(***************************************************************************)
(* Caption Line Grouper: group_words_into_lines.                           *)
(***************************************************************************)
\* str.strip() of a string whose only whitespace is the space.
RECURSIVE Strip(_)
Strip(s) ==
    IF s = "" THEN ""
    ELSE IF SubSeq(s, 1, 1) = " " THEN Strip(SubSeq(s, 2, Len(s)))
    ELSE IF SubSeq(s, Len(s), Len(s)) = " " THEN Strip(SubSeq(s, 1, Len(s) - 1))
    ELSE s

\* f"{current_line_text} {word_text}".strip()
TestText(line_text, word) == Strip(line_text \o " " \o Strip(word.word))

\* The line a flush appends.
LineOf(line_words, line_text) ==
    [start |-> line_words[1].start,
     end |-> line_words[Len(line_words)].end,
     text |-> line_text]

\* The condition with the word limit compared by > instead of >=.
MustFlushOffByOne(line_words, line_text, word, mw, mc) ==
    /\ (Len(line_words) > mw \/ Len(TestText(line_text, word)) > mc)
    /\ line_words # <<>>

\* The condition "adding this word exceeds limits".
MustFlush(line_words, line_text, word, mw, mc) ==
    /\ (Len(line_words) >= mw \/ Len(TestText(line_text, word)) > mc)
    /\ line_words # <<>>

\* The loop without the "Add final line" step after it.
RECURSIVE GroupLoopNoFinalLine(_, _, _, _, _, _)
GroupLoopNoFinalLine(ws, mw, mc, lines, cur, text) ==
    IF ws = <<>>
    THEN lines
    ELSE LET word == Head(ws)
         IN  IF MustFlush(cur, text, word, mw, mc)
             THEN GroupLoopNoFinalLine(Tail(ws), mw, mc,
                                       Append(lines, LineOf(cur, text)),
                                       <<word>>, TestText("", word))
             ELSE GroupLoopNoFinalLine(Tail(ws), mw, mc, lines,
                                       Append(cur, word), TestText(text, word))

\* The loop "for word in words"; cur and text are current_line_words and
\* current_line_text.
RECURSIVE GroupLoop(_, _, _, _, _, _)
GroupLoop(ws, mw, mc, lines, cur, text) ==
    IF ws = <<>>
    THEN \* "Add final line"
         IF cur # <<>> THEN Append(lines, LineOf(cur, text)) ELSE lines
    ELSE LET word == Head(ws)
         IN  IF MustFlush(cur, text, word, mw, mc)
             THEN GroupLoop(Tail(ws), mw, mc, Append(lines, LineOf(cur, text)),
                            <<word>>, TestText("", word))
             ELSE GroupLoop(Tail(ws), mw, mc, lines,
                            Append(cur, word), TestText(text, word))

group_words_into_lines(ws, mw, mc) ==
    IF ws = <<>> THEN <<>> ELSE GroupLoop(ws, mw, mc, <<>>, <<>>, "")

(***************************************************************************)
(* Identifiers, paths, the file system and time units.                     *)
(***************************************************************************)
\* generate_uuid() when n identifiers have been drawn before: a fresh
\* identifier.  Identifiers that exist before a run are not positive.
generate_uuid(n) == n + 1

\* The working directory of the process.
Cwd == "/cwd/"

\* Path.absolute(): a relative path is joined to the working directory.
absolute(p) == IF p # "" /\ SubSeq(p, 1, 1) = "/" THEN p ELSE Cwd \o p

\* str(Path(s)): a repeated separator collapses to one.
RECURSIVE PathStr(_)
PathStr(s) ==
    IF Len(s) < 2 THEN s
    ELSE IF SubSeq(s, 1, 2) = "//" THEN PathStr(SubSeq(s, 2, Len(s)))
    ELSE SubSeq(s, 1, 1) \o PathStr(SubSeq(s, 2, Len(s)))

\* int(seconds * MICROSECONDS_PER_SECOND) of a time that is not negative: the
\* microseconds the time holds, the rest cut off.
ToMicroseconds(t) == t \div TicksPerMicrosecond

\* microseconds / MICROSECONDS_PER_SECOND
FromMicroseconds(us) == us * TicksPerMicrosecond

\* The files of a project directory.
ContentFile == "draft_info.json"
MetaFile == "draft_meta_info.json"
DraftContentFile == "draft_content.json"

\* A dict with no keys.
EmptyDoc == <<>>

\* d[k] = v
Put(d, k, v) == [x \in (DOMAIN d) \cup {k} |-> IF x = k THEN v ELSE d[x]]

\* d.get(k, default)
Get(d, k, default) == IF k \in DOMAIN d THEN d[k] ELSE default

\* The disk maps <<directory, file name>> to the document the file holds.
DirFiles(d, dir) == {k \in DOMAIN d : k[1] = dir}

\* json.dump(doc, open(dir / file, "w"))
WriteFile(d, dir, file, doc) == Put(d, <<dir, file>>, doc)

\* shutil.copytree(src, dst) into a directory that does not exist yet.
copytree(d, src, dst) ==
    [k \in (DOMAIN d) \cup {<<dst, f[2]>> : f \in DirFiles(d, src)} |->
        IF k[1] = dst THEN d[<<src, k[2]>>] ELSE d[k]]

\* max(0, the ends of segs)
MaxEnd(ends) == CHOOSE m \in ends \cup {0} : \A e \in ends \cup {0} : e <= m

(***************************************************************************)
(* Draft Builder: CapCutDraft.                                             *)
(***************************************************************************)
\* CapCutDraft(project_name) when n identifiers have been drawn.
NewDraft(project_name, n) ==
    [project_name |-> project_name,
     project_id |-> generate_uuid(n),
     video_materials |-> <<>>,
     text_materials |-> <<>>,
     video_segments |-> <<>>,
     text_segments |-> <<>>]

add_video_material(dr, file_path, duration_us, n) ==
    [dr EXCEPT !.video_materials =
        Append(@, [id |-> generate_uuid(n),
                   file_path |-> absolute(file_path),
                   duration_us |-> duration_us])]

add_video_segment(dr, material_id, timeline_start_us, source_start_us, duration_us, n) ==
    [dr EXCEPT !.video_segments =
        Append(@, [id |-> generate_uuid(n),
                   material_id |-> material_id,
                   timeline_start_us |-> timeline_start_us,
                   source_start_us |-> source_start_us,
                   duration_us |-> duration_us])]

add_text_material(dr, text, n) ==
    [dr EXCEPT !.text_materials =
        Append(@, [id |-> generate_uuid(n), text |-> text])]

add_text_segment(dr, material_id, timeline_start_us, duration_us, n) ==
    [dr EXCEPT !.text_segments =
        Append(@, [id |-> generate_uuid(n),
                   material_id |-> material_id,
                   timeline_start_us |-> timeline_start_us,
                   duration_us |-> duration_us])]

_calculate_total_duration(dr) ==
    MaxEnd({dr.video_segments[i].timeline_start_us + dr.video_segments[i].duration_us :
               i \in DOMAIN dr.video_segments}
           \cup
           {dr.text_segments[i].timeline_start_us + dr.text_segments[i].duration_us :
               i \in DOMAIN dr.text_segments})

_build_video_material_json(m) ==
    [id |-> m.id, path |-> m.file_path, duration |-> m.duration_us]

_build_video_segment_json(s) ==
    [id |-> s.id,
     material_id |-> s.material_id,
     target_timerange |-> [start |-> s.timeline_start_us, duration |-> s.duration_us],
     source_timerange |-> [start |-> s.source_start_us, duration |-> s.duration_us],
     transform_y |-> 0,
     render_index |-> 0]

_build_text_material_json(m) == [id |-> m.id, text |-> m.text]

_build_text_segment_json(s) ==
    [id |-> s.id,
     material_id |-> s.material_id,
     target_timerange |-> [start |-> s.timeline_start_us, duration |-> s.duration_us],
     source_timerange |-> [start |-> 0, duration |-> s.duration_us],
     transform_y |-> DefaultPositionY - 5,
     render_index |-> 11000]

\* build_draft_content() at time t when n identifiers have been drawn: the
\* video track, then the text track when there are text segments.
build_draft_content(dr, n, t) ==
    LET video_track ==
            [type |-> "video", id |-> generate_uuid(n),
             segments |-> [i \in DOMAIN dr.video_segments |->
                              _build_video_segment_json(dr.video_segments[i])]]
        text_track ==
            [type |-> "text", id |-> generate_uuid(n + 1),
             segments |-> [i \in DOMAIN dr.text_segments |->
                              _build_text_segment_json(dr.text_segments[i])]]
    IN  [id |-> dr.project_id,
         name |-> dr.project_name,
         duration |-> _calculate_total_duration(dr),
         update_time |-> t,
         materials |->
             [videos |-> [i \in DOMAIN dr.video_materials |->
                             _build_video_material_json(dr.video_materials[i])],
              texts |-> [i \in DOMAIN dr.text_materials |->
                            _build_text_material_json(dr.text_materials[i])]],
         tracks |-> IF dr.text_segments # <<>>
                    THEN <<video_track, text_track>>
                    ELSE <<video_track>>]

build_draft_meta_info(dr, root_path, t) ==
    [draft_id |-> dr.project_id,
     draft_name |-> dr.project_name,
     draft_root_path |-> root_path,
     tm_draft_create |-> t,
     tm_draft_modified |-> t,
     tm_duration |-> _calculate_total_duration(dr)]

\* CapCutDraft.save(output_dir): the project folder is output_dir / project_id
\* and holds the content document and the metadata document.
DraftSave(dr, d, n, t) ==
    WriteFile(WriteFile(d, dr.project_id, DraftContentFile, build_draft_content(dr, n, t)),
              dr.project_id, MetaFile, build_draft_meta_info(dr, dr.project_id, t))

(***************************************************************************)
(* Project Loader and Project Mutator: CapCutProject.                      *)
(***************************************************************************)
\* CapCutProject(project_path): <<the object>>, or <<>> when the constructor
\* raises FileNotFoundError.
CapCutProject(d, dir) ==
    IF <<dir, ContentFile>> \notin DOMAIN d
    THEN <<>>
    ELSE <<[project_path |-> dir,
            content |-> d[<<dir, ContentFile>>],
            meta |-> Get(d, <<dir, MetaFile>>, EmptyDoc)]>>

\* The property project_name.
project_name(p) ==
    IF Get(p.meta, "draft_name", "") # "" THEN p.meta["draft_name"]
    ELSE IF Get(p.content, "name", "") # "" THEN p.content["name"]
    ELSE "Untitled"

\* The setter of project_name.
set_project_name(p, value) ==
    [p EXCEPT !.content = Put(@, "name", value),
              !.meta = Put(@, "draft_name", value)]

\* The property duration, in ticks.
project_duration(p) == FromMicroseconds(Get(p.content, "duration", 0))

get_video_materials(p) ==
    LET videos == p.content.materials.videos
    IN  [i \in DOMAIN videos |->
            [id |-> videos[i].id,
             path |-> videos[i].path,
             duration |-> FromMicroseconds(videos[i].duration)]]

\* The tracks of one type, in document order, and their segments in a row.
TracksOfType(p, type) == SelectSeq(p.content.tracks, LAMBDA tr : tr.type = type)

RECURSIVE SegmentsOf(_)
SegmentsOf(tracks) ==
    IF tracks = <<>> THEN <<>> ELSE Head(tracks).segments \o SegmentsOf(Tail(tracks))

\* materials_map.get(material_id): the last material with the id, if any.
MaterialPath(materials, material_id) ==
    LET hits == {i \in DOMAIN materials : materials[i].id = material_id}
    IN  IF hits = {} THEN ""
        ELSE materials[CHOOSE i \in hits : \A j \in hits : j <= i].path

get_video_segments(p) ==
    LET materials == get_video_materials(p)
        segs == SegmentsOf(TracksOfType(p, "video"))
    IN  [i \in DOMAIN segs |->
            LET timeline_start == FromMicroseconds(segs[i].target_timerange.start)
                dur == FromMicroseconds(segs[i].target_timerange.duration)
            IN  [id |-> segs[i].id,
                 material_id |-> segs[i].material_id,
                 source_path |-> MaterialPath(materials, segs[i].material_id),
                 timeline_start |-> timeline_start,
                 timeline_end |-> timeline_start + dur,
                 source_start |-> FromMicroseconds(segs[i].source_timerange.start),
                 source_end |-> FromMicroseconds(segs[i].source_timerange.start
                                                 + segs[i].source_timerange.duration),
                 duration |-> dur]]

\* get_source_video_paths(): the set of Path(material.path) of the materials
\* with a path; the code makes a list of the set, in no order it chooses.
get_source_video_paths(p) ==
    LET materials == get_video_materials(p)
    IN  {PathStr(materials[i].path) : i \in {j \in DOMAIN materials : materials[j].path # ""}}

\* _update_duration() over the video tracks only.
UpdateDurationVideoOnly(p) ==
    LET segs == SegmentsOf(TracksOfType(p, "video"))
        max_end == MaxEnd({segs[i].target_timerange.start + segs[i].target_timerange.duration :
                              i \in DOMAIN segs})
    IN  [p EXCEPT !.content = Put(@, "duration", max_end),
                  !.meta = Put(@, "tm_duration", max_end)]

\* _update_duration() that leaves the metadata document as it is.
UpdateDurationContentOnly(p) ==
    LET segs == SegmentsOf(p.content.tracks)
        max_end == MaxEnd({segs[i].target_timerange.start + segs[i].target_timerange.duration :
                              i \in DOMAIN segs})
    IN  [p EXCEPT !.content = Put(@, "duration", max_end)]

\* _update_duration()
_update_duration(p) ==
    LET segs == SegmentsOf(p.content.tracks)
        max_end == MaxEnd({segs[i].target_timerange.start + segs[i].target_timerange.duration :
                              i \in DOMAIN segs})
    IN  [p EXCEPT !.content = Put(@, "duration", max_end),
                  !.meta = Put(@, "tm_duration", max_end)]

\* The positions with position_toggle initially True.
CaptionPositionYTopFirst(position_y, i) ==
    IF position_y = DefaultPositionY
    THEN (IF i % 2 = 1 THEN TopPositionY ELSE DefaultPositionY)
    ELSE position_y

\* The position of the i-th caption: position_y 0.8 alternates with 0.2.
CaptionPositionY(position_y, i) ==
    IF position_y = DefaultPositionY
    THEN (IF i % 2 = 1 THEN DefaultPositionY ELSE TopPositionY)
    ELSE position_y

_build_text_material(material_id, text) == [id |-> material_id, text |-> text]

_build_text_segment(id, material_id, start_us, duration_us, position_y) ==
    [id |-> id,
     material_id |-> material_id,
     target_timerange |-> [start |-> start_us, duration |-> duration_us],
     source_timerange |-> [start |-> 0, duration |-> duration_us],
     transform_y |-> position_y - 5,
     render_index |-> 11000]

\* The index of the first track of a type, 0 if there is none.
FirstTrack(tracks, type) ==
    LET hits == {i \in DOMAIN tracks : tracks[i].type = type}
    IN  IF hits = {} THEN 0 ELSE CHOOSE i \in hits : \A j \in hits : i <= j

\* add_text_track that makes a new text track in every call.
AddTextTrackOnNewTrack(p, subtitles, position_y, n) ==
    IF subtitles = <<>> THEN [project |-> p, uuids |-> n]
    ELSE
    LET k == Len(subtitles)
        material_id(i) == generate_uuid(n + 2 * (i - 1))
        new_materials == [i \in 1..k |-> _build_text_material(material_id(i), subtitles[i].text)]
        new_segments ==
            [i \in 1..k |->
                LET start_us == ToMicroseconds(subtitles[i].start)
                    end_us == ToMicroseconds(subtitles[i].end)
                IN  _build_text_segment(generate_uuid(n + 2 * (i - 1) + 1), material_id(i),
                                        start_us, end_us - start_us,
                                        CaptionPositionY(position_y, i))]
        tracks1 == Append(p.content.tracks,
                          [type |-> "text", id |-> generate_uuid(n + 2 * k),
                           segments |-> new_segments])
        p1 == [p EXCEPT !.content.materials.texts = @ \o new_materials,
                        !.content.tracks = tracks1]
    IN  [project |-> _update_duration(p1), uuids |-> n + 2 * k + 1]

\* add_text_track(subtitles, style) when n identifiers have been drawn: the
\* project after the call, and the identifiers drawn after it.  The k-th
\* caption draws its material id and then its segment id; a new text track
\* draws its id last.
add_text_track(p, subtitles, position_y, n) ==
    IF subtitles = <<>> THEN [project |-> p, uuids |-> n]
    ELSE
    LET k == Len(subtitles)
        material_id(i) == generate_uuid(n + 2 * (i - 1))
        new_materials == [i \in 1..k |-> _build_text_material(material_id(i), subtitles[i].text)]
        new_segments ==
            [i \in 1..k |->
                LET start_us == ToMicroseconds(subtitles[i].start)
                    end_us == ToMicroseconds(subtitles[i].end)
                IN  _build_text_segment(generate_uuid(n + 2 * (i - 1) + 1), material_id(i),
                                        start_us, end_us - start_us,
                                        CaptionPositionY(position_y, i))]
        found == FirstTrack(p.content.tracks, "text")
        tracks1 == IF found = 0
                   THEN Append(p.content.tracks,
                               [type |-> "text", id |-> generate_uuid(n + 2 * k),
                                segments |-> <<>>])
                   ELSE p.content.tracks
        at == IF found = 0 THEN Len(tracks1) ELSE found
        tracks2 == [tracks1 EXCEPT ![at].segments = @ \o new_segments]
        p1 == [p EXCEPT !.content.materials.texts = @ \o new_materials,
                        !.content.tracks = tracks2]
    IN  [project |-> _update_duration(p1),
         uuids |-> IF found = 0 THEN n + 2 * k + 1 ELSE n + 2 * k]

\* _find_material_id_for_path(video_path): <<the id>> of the first material
\* whose path is str(video_path), <<>> for None.
_find_material_id_for_path(p, video_path) ==
    LET videos == p.content.materials.videos
        hits == {i \in DOMAIN videos : videos[i].path = video_path}
    IN  IF hits = {} THEN <<>>
        ELSE <<videos[CHOOSE i \in hits : \A j \in hits : i <= j].id>>

\* _build_video_segment(...): the template's other fields, or the defaults.
_build_video_segment(id, material_id, timeline_start_us, source_start_us, duration_us, template) ==
    [id |-> id,
     material_id |-> material_id,
     target_timerange |-> [start |-> timeline_start_us, duration |-> duration_us],
     source_timerange |-> [start |-> source_start_us, duration |-> duration_us],
     transform_y |-> IF template # <<>> THEN template[1].transform_y ELSE 0,
     render_index |-> IF template # <<>> THEN template[1].render_index ELSE 0]

\* timeline_offset_us set to the source end of the segment before.
TimelineOffsetAtSourceEnd(keep, i) ==
    IF i = 1 THEN 0 ELSE ToMicroseconds(keep[i - 1].end)

\* timeline_offset_us before the i-th keep segment.
RECURSIVE TimelineOffset(_, _)
TimelineOffset(keep, i) ==
    IF i = 1 THEN 0
    ELSE TimelineOffset(keep, i - 1)
         + (ToMicroseconds(keep[i - 1].end) - ToMicroseconds(keep[i - 1].start))

\* update_video_segments(new_segments): the segments of the first video
\* track, if there is one, are replaced.
update_video_segments(p, new_segments) ==
    LET found == FirstTrack(p.content.tracks, "video")
    IN  _update_duration(IF found = 0 THEN p
                         ELSE [p EXCEPT !.content.tracks[found].segments = new_segments])

\* apply_cut_plan that goes on with no material id when no material has the
\* path.
ApplyCutPlanWithoutMaterial(p, keep, video_path, n) ==
    LET found == FirstTrack(p.content.tracks, "video")
        material == _find_material_id_for_path(p, video_path)
    IN  IF keep = <<>> \/ found = 0
        THEN [project |-> p, uuids |-> n]
        ELSE
        LET existing == p.content.tracks[found].segments
            template == IF existing # <<>> THEN <<existing[1]>> ELSE <<>>
            new_segments ==
                [i \in DOMAIN keep |->
                    LET source_start_us == ToMicroseconds(keep[i].start)
                        source_end_us == ToMicroseconds(keep[i].end)
                    IN  _build_video_segment(generate_uuid(n + i - 1),
                                             IF material = <<>> THEN 0 ELSE material[1],
                                             TimelineOffset(keep, i), source_start_us,
                                             source_end_us - source_start_us, template)]
            p1 == [p EXCEPT !.content.tracks[found].segments = new_segments]
        IN  [project |-> _update_duration(p1), uuids |-> n + Len(keep)]

\* apply_cut_plan(cut_plan, video_path) when n identifiers have been drawn.
apply_cut_plan(p, keep, video_path, n) ==
    LET found == FirstTrack(p.content.tracks, "video")
        material == _find_material_id_for_path(p, video_path)
    IN  IF keep = <<>> \/ found = 0 \/ material = <<>>
        THEN [project |-> p, uuids |-> n]
        ELSE
        LET existing == p.content.tracks[found].segments
            template == IF existing # <<>> THEN <<existing[1]>> ELSE <<>>
            new_segments ==
                [i \in DOMAIN keep |->
                    LET source_start_us == ToMicroseconds(keep[i].start)
                        source_end_us == ToMicroseconds(keep[i].end)
                    IN  _build_video_segment(generate_uuid(n + i - 1), material[1],
                                             TimelineOffset(keep, i), source_start_us,
                                             source_end_us - source_start_us, template)]
            p1 == [p EXCEPT !.content.tracks[found].segments = new_segments]
        IN  [project |-> _update_duration(p1), uuids |-> n + Len(keep)]

\* save() at time t: the project after the call and the disk after it.
save(p, d, t) ==
    LET p1 == [p EXCEPT !.content = Put(@, "update_time", t),
                        !.meta = Put(@, "tm_draft_modified", t)]
    IN  [project |-> p1,
         disk |-> WriteFile(WriteFile(d, p.project_path, ContentFile, p1.content),
                            p.project_path, MetaFile, p1.meta)]

\* What a file holds when the write into it was cut short.
Truncated == [truncated |-> TRUE]

\* Where the operating system may fail a save: nowhere, at the open() of a
\* file, or in the json.dump() into the file open() has emptied.
IOFaults == {"none", "content_open", "content_write", "meta_open", "meta_write"}

\* save() that puts the content file back when the metadata file fails.
SaveRollingBack(p, d, t, fault) ==
    LET p1 == [p EXCEPT !.content = Put(@, "update_time", t),
                        !.meta = Put(@, "tm_draft_modified", t)]
    IN  IF fault = "none"
        THEN [project |-> p1, raised |-> FALSE,
              disk |-> WriteFile(WriteFile(d, p.project_path, ContentFile, p1.content),
                                 p.project_path, MetaFile, p1.meta)]
        ELSE [project |-> p1, raised |-> TRUE, disk |-> d]

\* save() at time t under a fault: the project after the call, the disk after
\* it, and whether the call raised (OSError).  Nothing catches the error, so
\* the statements after the failing one do not run.
save_io(p, d, t, fault) ==
    LET p1 == [p EXCEPT !.content = Put(@, "update_time", t),
                        !.meta = Put(@, "tm_draft_modified", t)]
        dir == p.project_path
    IN  IF fault = "content_open"
        THEN [project |-> p1, raised |-> TRUE, disk |-> d]
        ELSE IF fault = "content_write"
        THEN [project |-> p1, raised |-> TRUE,
              disk |-> WriteFile(d, dir, ContentFile, Truncated)]
        ELSE IF fault = "meta_open"
        THEN [project |-> p1, raised |-> TRUE,
              disk |-> WriteFile(d, dir, ContentFile, p1.content)]
        ELSE IF fault = "meta_write"
        THEN [project |-> p1, raised |-> TRUE,
              disk |-> WriteFile(WriteFile(d, dir, ContentFile, p1.content),
                                 dir, MetaFile, Truncated)]
        ELSE [project |-> p1, raised |-> FALSE,
              disk |-> WriteFile(WriteFile(d, dir, ContentFile, p1.content),
                                 dir, MetaFile, p1.meta)]

\* A create_copy that returns the project it was called on and copies nothing.
CreateCopyOfNothing(self, new_name, d, n, t) ==
    [self |-> self, copy |-> self, disk |-> d, uuids |-> n]

\* A create_copy that also renames and saves the project it was called on.
CreateCopyRenamingSource(self, new_name, d, n, t) ==
    LET new_id == generate_uuid(n)
        d1 == copytree(d, self.project_path, new_id)
        loaded == CapCutProject(d1, new_id)[1]
        c1 == [loaded EXCEPT !.content = Put(@, "id", new_id),
                             !.meta = Put(Put(@, "draft_id", new_id),
                                          "draft_root_path", new_id)]
        saved == save(set_project_name(c1, new_name), d1, t)
        source == save(set_project_name(self, new_name), saved.disk, t)
    IN  [self |-> source.project, copy |-> saved.project,
         disk |-> source.disk, uuids |-> n + 1]

\* create_copy(new_name) at time t when n identifiers have been drawn: the
\* object the call was made on, the object it returns, and the disk and the
\* identifiers drawn after it.
create_copy(self, new_name, d, n, t) ==
    LET new_id == generate_uuid(n)
        d1 == copytree(d, self.project_path, new_id)
        loaded == CapCutProject(d1, new_id)[1]
        c1 == [loaded EXCEPT !.content = Put(@, "id", new_id),
                             !.meta = Put(Put(@, "draft_id", new_id),
                                          "draft_root_path", new_id)]
        saved == save(set_project_name(c1, new_name), d1, t)
    IN  [self |-> self, copy |-> saved.project, disk |-> saved.disk, uuids |-> n + 1]

\* The "lines" generate_subtitles returns for a transcript and a cut plan:
\* none when no word maps to the timeline.
generate_subtitles(ws, keep) ==
    LET mapped == map_words_to_timeline(ws, keep)
    IN  IF mapped = <<>> THEN <<>>
        ELSE group_words_into_lines(mapped, SUBTITLE_MAX_WORDS, SUBTITLE_MAX_CHARS)

(***************************************************************************)
(* The duplicate oracle's client: LLMClient.detect_duplicates.             *)
(*                                                                         *)
(* A JSON value is [json, int, text, items]: json names its type, and the  *)
(* field of that type holds it.  A JSON object is a dict of JSON values.   *)
(***************************************************************************)
JNumber(k) == [json |-> "number", int |-> k, text |-> "", items |-> {}]
JString(t) == [json |-> "string", int |-> 0, text |-> t, items |-> {}]
JList(xs) == [json |-> "list", int |-> 0, text |-> "", items |-> xs]
JNull == [json |-> "null", int |-> 0, text |-> "", items |-> {}]

\* The strings int() reads as an integer, and what it reads.
DigitStrings == {"0", "1", "2"}
ParseInt(t) == IF t = "0" THEN 0 ELSE IF t = "1" THEN 1 ELSE 2

\* Validation of a field declared int: <<the integer>>, or <<>> when the value
\* is rejected.  A string of digits is converted.
IntField(v) ==
    IF v.json = "number" THEN <<v.int>>
    ELSE IF v.json = "string" /\ v.text \in DigitStrings THEN <<ParseInt(v.text)>>
    ELSE <<>>

\* Validation of a field declared list[int], read into a set.
IntListField(v) ==
    IF v.json = "list" /\ \A x \in v.items : IntField(x) # <<>>
    THEN <<{IntField(x)[1] : x \in v.items}>>
    ELSE <<>>

\* Validation of a field declared str: nothing but a string is accepted.
StrField(v) == IF v.json = "string" THEN <<v.text>> ELSE <<>>

\* DuplicateGroup(block_ids=g["block_ids"], keep=g["keep"], remove=g["remove"],
\* reason=g.get("reason", "")): <<the group>>, or <<>> when a key is missing or
\* a value is rejected.
ParseGroup(g) ==
    IF ~({"block_ids", "keep", "remove"} \subseteq DOMAIN g) THEN <<>>
    ELSE LET block_ids == IntListField(g["block_ids"])
             keep == IntField(g["keep"])
             remove == IntListField(g["remove"])
             reason == StrField(Get(g, "reason", JString("")))
         IN  IF block_ids = <<>> \/ keep = <<>> \/ remove = <<>> \/ reason = <<>>
             THEN <<>>
             ELSE <<[block_ids |-> block_ids[1], keep |-> keep[1],
                     remove |-> remove[1], reason |-> reason[1]]>>

\* The body of the try block for a response of the chat API: <<the groups>>,
\* or <<>> when a statement of the body raises.  A response is
\* [kind, doc]: the request failed, the content is not JSON, the content is
\* JSON but no object, or the content is the object doc; doc["groups"], when
\* present, is [json, elems] with elems the objects of the list.
TryDetect(response) ==
    IF response.kind # "json_object" THEN <<>>
    ELSE IF "groups" \notin DOMAIN response.doc THEN <<<<>>>>
    ELSE IF response.doc["groups"].json # "list" THEN <<>>
    ELSE LET elems == response.doc["groups"].elems
         IN  IF \E i \in DOMAIN elems : ParseGroup(elems[i]) = <<>>
             THEN <<>>
             ELSE <<[i \in DOMAIN elems |-> ParseGroup(elems[i])[1]]>>

\* detect_duplicates with a handler that raises the exception again.
DetectDuplicatesUncaught(paragraph_data, response) ==
    IF paragraph_data = <<>> THEN [raised |-> FALSE, groups |-> <<>>]
    ELSE LET body == TryDetect(response)
         IN  IF body = <<>>
             THEN [raised |-> TRUE, groups |-> <<>>]
             ELSE [raised |-> FALSE, groups |-> body[1]]

\* detect_duplicates(paragraphs): the groups of the DuplicateGroups returned,
\* and whether an exception leaves the method.
detect_duplicates(paragraph_data, response) ==
    IF paragraph_data = <<>> THEN [raised |-> FALSE, groups |-> <<>>]
    ELSE LET body == TryDetect(response)
         IN  IF body = <<>>
             THEN [raised |-> FALSE, groups |-> <<>>]
             ELSE [raised |-> FALSE, groups |-> body[1]]

(***************************************************************************)
(* Project Finder: list_projects.                                          *)
(*                                                                         *)
(* A metadata document is Truncated (json.load raises) or a JSON object, a *)
(* dict of JSON values.                                                    *)
(***************************************************************************)
\* _parse_project_info in which a content file that does not load is fatal.
ParseProjectInfoContentFatal(d, folder) ==
    LET meta == d[<<folder, MetaFile>>]
        name == IF meta = Truncated THEN <<>>
                ELSE StrField(Get(meta, "draft_name", JString("Untitled")))
        modified_time == IF meta = Truncated THEN <<>>
                         ELSE IntField(Get(meta, "tm_draft_modified", JNumber(0)))
    IN  IF name = <<>> \/ modified_time = <<>>
           \/ Get(meta, "tm_duration", JNumber(0)).json # "number"
           \/ Get(d, <<folder, DraftContentFile>>, EmptyDoc) = Truncated
        THEN <<>>
        ELSE <<[path |-> folder, name |-> name[1],
                duration_us |-> Get(meta, "tm_duration", JNumber(0)).int,
                modified_time |-> modified_time[1],
                video_count |->
                    IF <<folder, DraftContentFile>> \in DOMAIN d
                    THEN Len(d[<<folder, DraftContentFile>>].materials.videos)
                    ELSE 0]>>

\* _parse_project_info(project_folder, meta_file, content_file): <<the
\* ProjectInfo>>, or <<>> when it raises: json.load of the metadata raises,
\* tm_duration is no number (duration_us / 1_000_000 raises) or ProjectInfo
\* rejects the name or the modified time.  A content file that does not load
\* counts no video.
_parse_project_info(d, folder) ==
    LET meta == d[<<folder, MetaFile>>]
        name == IF meta = Truncated THEN <<>>
                ELSE StrField(Get(meta, "draft_name", JString("Untitled")))
        modified_time == IF meta = Truncated THEN <<>>
                         ELSE IntField(Get(meta, "tm_draft_modified", JNumber(0)))
    IN  IF name = <<>> \/ modified_time = <<>>
           \/ Get(meta, "tm_duration", JNumber(0)).json # "number"
        THEN <<>>
        ELSE <<[path |-> folder, name |-> name[1],
                duration_us |-> Get(meta, "tm_duration", JNumber(0)).int,
                modified_time |-> modified_time[1],
                video_count |->
                    IF /\ <<folder, DraftContentFile>> \in DOMAIN d
                       /\ d[<<folder, DraftContentFile>>] # Truncated
                    THEN Len(d[<<folder, DraftContentFile>>].materials.videos)
                    ELSE 0]>>

\* projects.sort(key=lambda p: p.modified_time, reverse=True): a stable sort,
\* entries of one time stay in their order.
RECURSIVE SortNewestFirst(_)
SortNewestFirst(projects) ==
    IF projects = <<>> THEN <<>>
    ELSE LET sorted == SortNewestFirst(SubSeq(projects, 1, Len(projects) - 1))
             last == projects[Len(projects)]
             before == SelectSeq(sorted, LAMBDA q : q.modified_time >= last.modified_time)
             after == SelectSeq(sorted, LAMBDA q : q.modified_time < last.modified_time)
         IN  before \o <<last>> \o after

\* The loop "for project_folder in drafts_dir.iterdir()" over the folders in
\* the order iterdir gives them.
RECURSIVE ListLoop(_, _)
ListLoop(d, folders) ==
    IF folders = <<>> THEN <<>>
    ELSE LET folder == Head(folders)
             rest == ListLoop(d, Tail(folders))
         IN  IF <<folder, MetaFile>> \notin DOMAIN d THEN rest
             ELSE _parse_project_info(d, folder) \o rest

\* list_projects(drafts_dir)
list_projects(d, folders) == SortNewestFirst(ListLoop(d, folders))

(***************************************************************************)
(* The export of a cut plan as a new draft: generate_capcut_project.        *)
(***************************************************************************)
\* seconds_to_microseconds(seconds): int(seconds * MICROSECONDS_PER_SECOND)
seconds_to_microseconds(seconds) == ToMicroseconds(seconds)

\* The loop "for segment in keep_segments" of generate_capcut_project at the
\* timeline position it has come to, when n identifiers have been drawn.
RECURSIVE ExportLoop(_, _, _, _, _)
ExportLoop(dr, material_id, keep_segs, timeline_position, n) ==
    IF keep_segs = <<>> THEN [draft |-> dr, uuids |-> n]
    ELSE LET segment == Head(keep_segs)
             source_start_us == seconds_to_microseconds(segment.start)
             duration_us == seconds_to_microseconds(segment.end - segment.start)
         IN  ExportLoop(add_video_segment(dr, material_id, timeline_position,
                                          source_start_us, duration_us, n),
                        material_id, Tail(keep_segs),
                        timeline_position + duration_us, n + 1)

\* generate_capcut_project(file_path, cut_plan_data, project_name) up to the
\* draft it saves, for a video of a duration and the files there are, when n
\* identifiers have been drawn: it raises when the file is not there or the
\* cut plan keeps nothing.
generate_capcut_project(file_path, keep_segs, draft_name, video_duration, files, n) ==
    IF file_path \notin files \/ keep_segs = <<>>
    THEN [raised |-> TRUE, draft |-> <<>>, uuids |-> n]
    ELSE LET created == NewDraft(draft_name, n)
             with_material == add_video_material(created, file_path,
                                 seconds_to_microseconds(video_duration), n + 1)
             built == ExportLoop(with_material, generate_uuid(n + 1), keep_segs, 0, n + 2)
         IN  [raised |-> FALSE, draft |-> <<built.draft>>, uuids |-> built.uuids]

(***************************************************************************)
(* The parts of the state a pipeline does not use stay as constructed.      *)
(***************************************************************************)
AnalyzeIdle ==
    /\ threshold = 0
    /\ oracle = <<>>
    /\ duration = 0
    /\ paragraphs = <<>>
    /\ cut_plan = <<>>

SubtitlesIdle ==
    /\ keep_segments = <<>>
    /\ max_words = SUBTITLE_MAX_WORDS
    /\ max_chars = SUBTITLE_MAX_CHARS
    /\ timeline_words = <<>>
    /\ subtitle_lines = <<>>

\* No tool is running.
ToolIdle == [name |-> "none", result |-> ""]

ProjectIdle ==
    /\ disk = <<>>
    /\ uuids = 0
    /\ clock = 0
    /\ draft = <<>>
    /\ original = <<>>
    /\ project = <<>>
    /\ tool = ToolIdle
    /\ media = {}

(***************************************************************************)
(* The analysis pipeline: analyze_content.                                 *)
(***************************************************************************)
\* Word timings: a word is an interval of the original clock.
WordTimes == {t \in [start : 0..MaxTime, end : 0..MaxTime] : t.start <= t.end}

\* Transcripts: words in time order (ascending start), of up to n words.
Transcripts(n) ==
    {[i \in DOMAIN ts |-> [word |-> WordText(i), start |-> ts[i].start, end |-> ts[i].end]] :
        ts \in {s \in SeqsUpTo(WordTimes, n) :
                   \A i \in 1..(Len(s) - 1) : s[i].start <= s[i + 1].start}}

\* Transcription.duration as WhisperClient._parse_response sets it: the end of
\* the last segment.  A word belongs to a segment it starts in, so every word
\* starts before the last segment ends; it may end after it.
Durations(ws) == {d \in 0..MaxTime : \A i \in DOMAIN ws : ws[i].start < d}

\* The ids a duplicate group may name, and the groups over them.
GroupIds == {0, 1}

DuplicateGroupsOver(ids, reasons) ==
    [block_ids : SUBSET ids, keep : ids, remove : SUBSET ids, reason : reasons]

\* An oracle that keeps its contract: it answers with no group, or with one
\* group of the paragraphs it was sent that keeps the last of them and removes
\* any of the others.
ContractReplies(ps) ==
    LET ids == {ps[i].id : i \in DOMAIN ps}
        last == ps[Len(ps)].id
    IN  {<<>>} \cup
        {<<[block_ids |-> r \cup {last}, keep |-> last, remove |-> r, reason |-> "retake"]>> :
            r \in (SUBSET (ids \ {last})) \ {{}}}

\* An oracle that answers with any list of up to MaxGroups groups over GroupIds;
\* the i-th group of a reply gives the i-th reason.
ReasonOf(i) == <<"first", "second", "third", "fourth">>[i]

AnyGroupReplies ==
    {[i \in DOMAIN gs |-> [block_ids |-> gs[i].block_ids, keep |-> gs[i].keep,
                           remove |-> gs[i].remove, reason |-> ReasonOf(i)]] :
        gs \in SeqsUpTo(DuplicateGroupsOver(GroupIds, {""}), MaxGroups)}

\* Three words a long pause apart: three paragraphs at any threshold <= 1.
SpacedTranscript ==
    [i \in 1..3 |-> [word |-> WordText(i), start |-> 2 * (i - 1), end |-> 2 * i - 1]]

\* A recording in tenths of a second: "hi" and "there" in one breath, "world"
\* four seconds later, and a threshold of three seconds.
SpokenExample ==
    [words |-> <<[word |-> "hi", start |-> 0, end |-> 5],
                 [word |-> "there", start |-> 6, end |-> 10],
                 [word |-> "world", start |-> 50, end |-> 54]>>,
     threshold |-> 30,
     duration |-> 54]

\* analyze_content is called with a transcript, a threshold and an oracle.
InitAnalyze ==
    /\ pc = "analyze"
    /\ \/ /\ words \in Transcripts(MaxWords)
          /\ threshold \in 0..MaxThreshold
          /\ duration \in Durations(words)
       \/ /\ words = SpokenExample.words
          /\ threshold = SpokenExample.threshold
          /\ duration = SpokenExample.duration
    /\ oracle = <<>>
    /\ paragraphs = <<>>
    /\ cut_plan = <<>>
    /\ SubtitlesIdle
    /\ ProjectIdle

\* The same call on a fixed transcript with an oracle that answers anything.
InitDuplicates ==
    /\ pc = "analyze"
    /\ words \in {SubSeq(SpacedTranscript, 1, n) : n \in 1..3}
    /\ threshold = 1
    /\ oracle = <<>>
    /\ duration = 5
    /\ paragraphs = <<>>
    /\ cut_plan = <<>>
    /\ SubtitlesIdle
    /\ ProjectIdle

\* paragraphs = find_paragraphs(transcription, silence_threshold_sec)
FindParagraphs ==
    /\ pc = "analyze"
    /\ paragraphs' = find_paragraphs(words, threshold)
    /\ pc' = "paragraphs"
    /\ UNCHANGED <<words, threshold, oracle, duration, cut_plan, otherThanAnalyze>>

\* duplicate_detection and paragraphs and settings.openai_api_key:
\* paragraphs = detect_duplicates_in_paragraphs(paragraphs, api_key), where
\* client.detect_duplicates answers with one of replies.
DetectDuplicates(replies) ==
    /\ pc = "paragraphs"
    /\ paragraphs # <<>>
    /\ \E reply \in replies :
          /\ oracle' = reply
          /\ paragraphs' = detect_duplicates_in_paragraphs(paragraphs, reply)
    /\ pc' = "resolved"
    /\ UNCHANGED <<words, threshold, duration, cut_plan, otherThanAnalyze>>

DetectWithContractOracle == DetectDuplicates(ContractReplies(paragraphs))

DetectWithAnyOracle == DetectDuplicates(AnyGroupReplies)

\* duplicate detection is off, there is no API key, or there are no paragraphs.
SkipDuplicates ==
    /\ pc = "paragraphs"
    /\ pc' = "skipped"
    /\ UNCHANGED <<words, analyzeVars, otherThanAnalyze>>

\* cut_plan = build_cut_plan(paragraphs, transcription, silence_threshold_sec)
BuildCutPlan ==
    /\ pc \in {"resolved", "skipped"}
    /\ cut_plan' = <<build_cut_plan(paragraphs, words, duration, threshold)>>
    /\ pc' = "planned"
    /\ UNCHANGED <<words, threshold, oracle, duration, paragraphs, otherThanAnalyze>>

NextAnalyze ==
    FindParagraphs \/ DetectWithContractOracle \/ SkipDuplicates \/ BuildCutPlan

NextDuplicates ==
    FindParagraphs \/ DetectWithAnyOracle \/ SkipDuplicates \/ BuildCutPlan

SpecAnalyze == InitAnalyze /\ [][NextAnalyze]_vars

SpecDuplicates == InitDuplicates /\ [][NextDuplicates]_vars

(***************************************************************************)
(* build_cut_plan on any paragraphs: in any order, kept or removed, apart  *)
(* or overlapping.                                                         *)
(***************************************************************************)
\* Paragraph lists: the i-th has the id i - 1.
ParagraphLists ==
    {[i \in DOMAIN ps |->
         [id |-> i - 1, start |-> ps[i].time.start, end |-> ps[i].time.end,
          text |-> WordText(i), action |-> ps[i].action,
          reason |-> IF ps[i].action = "keep" THEN "" ELSE "duplicate_take: retake",
          group_id |-> <<>>]] :
        ps \in SeqsUpTo([time : WordTimes, action : {"keep", "remove"}], MaxParagraphs)}

\* build_cut_plan is called with paragraphs, a transcription and a threshold.
InitCutPlan ==
    /\ pc = "resolved"
    /\ words = <<>>
    /\ threshold \in 0..MaxThreshold
    /\ oracle = <<>>
    /\ duration = MaxTime
    /\ paragraphs \in ParagraphLists
    /\ cut_plan = <<>>
    /\ SubtitlesIdle
    /\ ProjectIdle

NextCutPlan == BuildCutPlan

SpecCutPlan == InitCutPlan /\ [][NextCutPlan]_vars

(***************************************************************************)
(* The analysis pipeline with the chat API behind the oracle: the response *)
(* of the API is any of a request error, a reply that is no JSON object,   *)
(* and an object with well-formed and defective groups.                    *)
(***************************************************************************)
\* A group as the prompt asks for it, and a second one.
FirstGroup ==
    [x \in {"block_ids", "keep", "remove", "reason"} |->
        CASE x = "block_ids" -> JList({JNumber(0), JNumber(1)})
          [] x = "keep" -> JNumber(1)
          [] x = "remove" -> JList({JNumber(0)})
          [] x = "reason" -> JString("retake")]

SecondGroup ==
    [FirstGroup EXCEPT !["block_ids"] = JList({JNumber(1), JNumber(2)}),
                       !["keep"] = JNumber(2),
                       !["remove"] = JList({JNumber(1)})]

\* d without the key k.
Drop(d, k) == [x \in (DOMAIN d) \ {k} |-> d[x]]

\* The first group with one key dropped, or one value of another type.
DefectiveGroups ==
    {Drop(FirstGroup, k) : k \in DOMAIN FirstGroup}
    \cup {[FirstGroup EXCEPT !["keep"] = v] : v \in {JString("x"), JString("1"), JNull}}
    \cup {[FirstGroup EXCEPT !["block_ids"] = v] :
             v \in {JNumber(0), JList({JString("0"), JString("1")}), JList({JNull})}}
    \cup {[FirstGroup EXCEPT !["remove"] = v] : v \in {JNull, JList({JString("0")})}}
    \cup {[FirstGroup EXCEPT !["reason"] = v] : v \in {JNumber(1), JNull}}

ChatResponse(kind, doc) == [kind |-> kind, doc |-> doc]

GroupsValue(elems) == [json |-> "list", elems |-> elems]

ChatResponses ==
    {ChatResponse(kind, EmptyDoc) : kind \in {"request_error", "not_json", "json_list"}}
    \cup {ChatResponse("json_object", EmptyDoc),
          ChatResponse("json_object", Put(EmptyDoc, "groups", [json |-> "null", elems |-> <<>>]))}
    \cup {ChatResponse("json_object", Put(EmptyDoc, "groups", GroupsValue(gs))) :
             gs \in {<<>>, <<FirstGroup>>, <<FirstGroup, SecondGroup>>}
                    \cup {<<g>> : g \in DefectiveGroups}
                    \cup {<<SecondGroup, g>> : g \in DefectiveGroups}}

\* analyze_content is called with duplicate detection on and an API key set;
\* the chat API will answer with tool.response.
InitOracle ==
    /\ pc = "analyze"
    /\ words \in {SubSeq(SpacedTranscript, 1, n) : n \in 1..3}
    /\ threshold = 1
    /\ oracle = <<>>
    /\ duration = 5
    /\ paragraphs = <<>>
    /\ cut_plan = <<>>
    /\ SubtitlesIdle
    /\ disk = <<>>
    /\ uuids = 0
    /\ clock = 0
    /\ draft = <<>>
    /\ original = <<>>
    /\ project = <<>>
    /\ tool \in {[name |-> "analyze_content", response |-> r, result |-> ""] :
                    r \in ChatResponses}
    /\ media = {}

\* paragraphs = detect_duplicates_in_paragraphs(paragraphs, api_key), with
\* duplicate_result = client.detect_duplicates(paragraph_data); an exception
\* that leaves detect_duplicates leaves analyze_content.
DetectWithChatOracle ==
    /\ pc = "paragraphs"
    /\ paragraphs # <<>>
    /\ LET duplicate_result == detect_duplicates(paragraphs, tool.response)
       IN  IF duplicate_result.raised
           THEN /\ pc' = "raised"
                /\ UNCHANGED <<oracle, paragraphs>>
           ELSE /\ oracle' = duplicate_result.groups
                /\ paragraphs' = detect_duplicates_in_paragraphs(paragraphs,
                                                                 duplicate_result.groups)
                /\ pc' = "resolved"
    /\ UNCHANGED <<words, threshold, duration, cut_plan, otherThanAnalyze>>

NextOracle == FindParagraphs \/ DetectWithChatOracle \/ BuildCutPlan

SpecOracle == InitOracle /\ [][NextOracle]_vars

(***************************************************************************)
(* The caption pipeline: generate_subtitles.                               *)
(***************************************************************************)
\* Keep segments as a cut plan lists them: non-empty intervals in ascending
\* order, none overlapping the next.
SegmentTimes == {t \in [start : 0..MaxTime, end : 0..MaxTime] : t.start < t.end}

KeepSegmentLists ==
    {[i \in DOMAIN ts |-> MkCutSegment(ts[i].start, ts[i].end, "", "", <<>>)] :
        ts \in {s \in SeqsUpTo(SegmentTimes, MaxSegments) :
                   \A i \in 1..(Len(s) - 1) : s[i].end <= s[i + 1].start}}

\* The texts of caption words: plain, with the leading space the speech API
\* gives them, and blank.
CaptionTexts == {"a", "bc", " d", " "}

\* Timeline words with any texts, the i-th spoken during the i-th tick.
CaptionWordLists ==
    {[i \in DOMAIN txt |-> [word |-> txt[i], start |-> i - 1, end |-> i]] :
        txt \in SeqsUpTo(CaptionTexts, MaxWords)}

\* Nine short caption words 0.3 s apart, in tenths of a second.
NineWords ==
    [i \in 1..9 |->
        [word |-> <<"one", "two", "three", "four", "five", "six", "seven", "eight",
                    "nine">>[i],
         start |-> 3 * (i - 1), end |-> 3 * (i - 1) + 2]]

\* generate_subtitles is called with a transcript and a cut plan's keep
\* segments, or group_words_into_lines with timeline words and limits (any
\* within the bounds, or the nine words with the default limits).
InitSubtitles ==
    /\ AnalyzeIdle
    /\ ProjectIdle
    /\ subtitle_lines = <<>>
    /\ \/ /\ pc = "subtitles"
          /\ words \in Transcripts(MaxClipWords)
          /\ keep_segments \in KeepSegmentLists
          /\ max_words = SUBTITLE_MAX_WORDS
          /\ max_chars = SUBTITLE_MAX_CHARS
          /\ timeline_words = <<>>
       \/ /\ pc = "group"
          /\ words = <<>>
          /\ keep_segments = <<>>
          /\ max_words \in 1..MaxLineLimit
          /\ max_chars \in 0..MaxChars
          /\ timeline_words \in CaptionWordLists \ {<<>>}
       \/ /\ pc = "group"
          /\ words = <<>>
          /\ keep_segments = <<>>
          /\ max_words = SUBTITLE_MAX_WORDS
          /\ max_chars = SUBTITLE_MAX_CHARS
          /\ timeline_words = NineWords

\* timeline_words = map_words_to_timeline(transcription.get_all_words(), keep_segments)
MapWordsToTimeline ==
    /\ pc = "subtitles"
    /\ timeline_words' = map_words_to_timeline(words, keep_segments)
    /\ pc' = IF timeline_words' = <<>> THEN "no_words" ELSE "mapped"
    /\ UNCHANGED <<words, keep_segments, max_words, max_chars, subtitle_lines,
                   otherThanSubtitles>>

\* subtitle_lines = group_words_into_lines(timeline_words)
GroupWordsIntoLines ==
    /\ pc \in {"mapped", "group"}
    /\ subtitle_lines' = group_words_into_lines(timeline_words, max_words, max_chars)
    /\ pc' = "grouped"
    /\ UNCHANGED <<words, keep_segments, max_words, max_chars, timeline_words,
                   otherThanSubtitles>>

NextSubtitles == MapWordsToTimeline \/ GroupWordsIntoLines

SpecSubtitles == InitSubtitles /\ [][NextSubtitles]_vars

(***************************************************************************)
(* The draft builder: a CapCutDraft is built, saved, and the folder it was *)
(* saved to is opened with CapCutProject.                                  *)
(***************************************************************************)
DraftNames == {"clip"}

DraftPaths == {"/v/a.mp4", "b.mp4"}

DraftMaterialDurations == {4}

DraftTimelineStarts == {0, 2}

DraftSourceStarts == {1}

DraftSegmentDurations == {1, 3}

DraftTextStarts == {1}

DraftTextDurations == {4}

\* draft = CapCutDraft(project_name)
InitDraft ==
    /\ pc = "draft"
    /\ words = <<>>
    /\ AnalyzeIdle
    /\ SubtitlesIdle
    /\ disk = <<>>
    /\ uuids = 1
    /\ clock = 1
    /\ draft \in {<<NewDraft(name, 0)>> : name \in DraftNames}
    /\ original = <<>>
    /\ project = <<>>
    /\ tool = ToolIdle
    /\ media = {}

\* draft.add_video_material(file_path, duration_us, width, height)
AddVideoMaterial ==
    /\ pc = "draft"
    /\ Len(draft[1].video_materials) < MaxDraftMaterials
    /\ \E file_path \in DraftPaths, duration_us \in DraftMaterialDurations :
          draft' = <<add_video_material(draft[1], file_path, duration_us, uuids)>>
    /\ uuids' = uuids + 1
    /\ UNCHANGED <<pc, words, analyzeVars, subtitleVars,
                   disk, clock, original, project, tool, media>>

\* draft.add_video_segment(material_id, timeline_start_us, source_start_us,
\* duration_us); the material id is one add_video_material returned, or one
\* it never returned.
AddVideoSegment ==
    /\ pc = "draft"
    /\ Len(draft[1].video_segments) < MaxDraftSegments
    /\ \E material_id \in {draft[1].video_materials[i].id :
                              i \in DOMAIN draft[1].video_materials} \cup {0},
          timeline_start_us \in DraftTimelineStarts,
          source_start_us \in DraftSourceStarts,
          duration_us \in DraftSegmentDurations :
          draft' = <<add_video_segment(draft[1], material_id, timeline_start_us,
                                       source_start_us, duration_us, uuids)>>
    /\ uuids' = uuids + 1
    /\ UNCHANGED <<pc, words, analyzeVars, subtitleVars,
                   disk, clock, original, project, tool, media>>

\* draft.add_text_material(text, style)
AddTextMaterial ==
    /\ pc = "draft"
    /\ Len(draft[1].text_materials) < MaxDraftTexts
    /\ draft' = <<add_text_material(draft[1], "hi", uuids)>>
    /\ uuids' = uuids + 1
    /\ UNCHANGED <<pc, words, analyzeVars, subtitleVars,
                   disk, clock, original, project, tool, media>>

\* draft.add_text_segment(material_id, timeline_start_us, duration_us); the
\* material id is one add_text_material returned, or one it never returned.
AddTextSegment ==
    /\ pc = "draft"
    /\ Len(draft[1].text_segments) < MaxDraftTexts
    /\ \E material_id \in {draft[1].text_materials[i].id :
                              i \in DOMAIN draft[1].text_materials} \cup {0},
          timeline_start_us \in DraftTextStarts,
          duration_us \in DraftTextDurations :
          draft' = <<add_text_segment(draft[1], material_id, timeline_start_us,
                                      duration_us, uuids)>>
    /\ uuids' = uuids + 1
    /\ UNCHANGED <<pc, words, analyzeVars, subtitleVars,
                   disk, clock, original, project, tool, media>>

\* project_folder = draft.save(output_dir), at a time t the clock has come to.
SaveDraft ==
    /\ pc = "draft"
    /\ \E t \in clock..MaxClock :
          /\ clock' = t
          /\ disk' = DraftSave(draft[1], disk, uuids, t)
    /\ uuids' = IF draft[1].text_segments # <<>> THEN uuids + 2 ELSE uuids + 1
    /\ pc' = "draft_saved"
    /\ UNCHANGED <<words, analyzeVars, subtitleVars,
                   draft, original, project, tool, media>>

\* CapCutProject(project_folder)
LoadSavedDraft ==
    /\ pc = "draft_saved"
    /\ project' = CapCutProject(disk, draft[1].project_id)
    /\ tool' = [name |-> "CapCutProject",
                result |-> IF project' = <<>> THEN "FileNotFoundError" ELSE "ok"]
    /\ pc' = "draft_loaded"
    /\ UNCHANGED <<words, analyzeVars, subtitleVars,
                   disk, uuids, clock, draft, original, media>>

NextDraft ==
    \/ AddVideoMaterial
    \/ AddVideoSegment
    \/ AddTextMaterial
    \/ AddTextSegment
    \/ SaveDraft
    \/ LoadSavedDraft

SpecDraft == InitDraft /\ [][NextDraft]_vars

(***************************************************************************)
(* The tools on an existing project: add_subtitles_to_project and          *)
(* smart_cut_project.                                                      *)
(***************************************************************************)
\* The directory the tool is pointed at, and the id of the project in it.
OriginalDir == 0

ProjectNames == {"Trip"}

\* f"{original_name} - SmartCut"
CopySuffix == " - SmartCut"

\* The paths the video materials of a project name, in document order; one
\* path is written with a repeated separator.
MaterialPathLists ==
    {<<>>, <<"/v/a.mp4">>, <<"/v/a.mp4", "/v/b.mp4">>, <<"/v/a.mp4", "/v//c.mp4">>}

\* The material ids its video segments name, in timeline order.
SegmentRefLists == {<<>>, <<0 - 1>>, <<0 - 1, 0 - 2>>}

\* The video files that exist.
MediaStates == {{"/v/a.mp4", "/v/b.mp4"}, {"/v/a.mp4", "/v/b.mp4", "/v/c.mp4"}}

\* The video materials of an existing project: the i-th has the id -i.
ExistingMaterials ==
    {[i \in DOMAIN ps |-> [id |-> 0 - i, path |-> ps[i], duration |-> 4]] :
        ps \in MaterialPathLists}

\* Its video segments, back to back on the timeline, each of a material id.
ExistingSegments ==
    {[i \in DOMAIN ms |->
         [id |-> 0 - (10 + i),
          material_id |-> ms[i],
          target_timerange |-> [start |-> 2 * (i - 1), duration |-> 2],
          source_timerange |-> [start |-> 0, duration |-> 2],
          transform_y |-> 0,
          render_index |-> 1]] :
        ms \in SegmentRefLists}

\* Its tracks: a video track (none, or an empty one, when there is no video
\* segment), and a text track with one caption or none.
ExistingTracks(segs) ==
    LET video == [type |-> "video", id |-> 0 - 30, segments |-> segs]
        text == [type |-> "text", id |-> 0 - 31,
                 segments |-> <<_build_text_segment(0 - 32, 0 - 33, 0, 1, DefaultPositionY)>>]
    IN  {<<video>>, <<video, text>>} \cup (IF segs = <<>> THEN {<<>>} ELSE {})

ExistingContents ==
    {[id |-> OriginalDir,
      name |-> name,
      duration |-> MaxEnd({SegmentsOf(tracks)[i].target_timerange.start
                           + SegmentsOf(tracks)[i].target_timerange.duration :
                              i \in DOMAIN SegmentsOf(tracks)}),
      update_time |-> 0,
      materials |-> [videos |-> videos,
                     texts |-> IF FirstTrack(tracks, "text") # 0
                               THEN <<_build_text_material(0 - 33, "old")>>
                               ELSE <<>>],
      tracks |-> tracks] :
        name \in ProjectNames,
        videos \in ExistingMaterials,
        tracks \in UNION {ExistingTracks(segs) : segs \in ExistingSegments}}

ExistingMeta(content) ==
    [draft_id |-> content.id,
     draft_name |-> content.name,
     draft_root_path |-> OriginalDir,
     tm_draft_create |-> 0,
     tm_draft_modified |-> 0,
     tm_duration |-> content.duration]

\* The project directories a tool may be pointed at: the content document
\* under the name the loader reads or under the name the draft builder
\* writes, with the metadata document or without it.
ExistingDisks ==
    UNION {
        {WriteFile(<<>>, OriginalDir, ContentFile, content),
         WriteFile(WriteFile(<<>>, OriginalDir, ContentFile, content),
                   OriginalDir, MetaFile, ExistingMeta(content)),
         WriteFile(WriteFile(<<>>, OriginalDir, DraftContentFile, content),
                   OriginalDir, MetaFile, ExistingMeta(content))} :
        content \in ExistingContents}

\* What an SRT file parses to: _parse_srt_file(srt_path).
SrtFiles ==
    {<<>>,
     <<[start |-> 0, end |-> 3, text |-> "hi"]>>,
     <<[start |-> 0, end |-> 3, text |-> "hi"], [start |-> 3, end |-> 7, text |-> "there"]>>}

\* What a video transcribes to: no word, one word, or two a pause apart.
ClipTranscript ==
    [i \in 1..2 |-> [word |-> WordText(i), start |-> 6 * (i - 1), end |-> 6 * (i - 1) + 3]]

ToolTranscripts == {SubSeq(ClipTranscript, 1, n) : n \in 0..2}

ToolThresholds == {3}

\* Transcription.duration: the end of the last word.
TranscriptDuration(ws) == IF ws = <<>> THEN 0 ELSE ws[Len(ws)].end

\* The orders list(set) may give the paths of a set.
Orders(S) ==
    {s \in [1..Cardinality(S) -> S] : \A i, j \in DOMAIN s : i # j => s[i] # s[j]}

InitTools ==
    /\ pc = "tool_idle"
    /\ words = <<>>
    /\ AnalyzeIdle
    /\ SubtitlesIdle
    /\ disk \in ExistingDisks
    /\ uuids = 0
    /\ clock = 1
    /\ draft = <<>>
    /\ original = <<>>
    /\ project = <<>>
    /\ tool = ToolIdle
    /\ media \in MediaStates

\* What can_modify_capcut() may answer: the configuration allows the tools to
\* change projects, or it does not.
can_modify_capcut == BOOLEAN

\* The call of a tool up to "original = CapCutProject.load(path)": the tool
\* returns an error when modification is disabled or the load raises.
Invoke(call) ==
    /\ pc = "tool_idle"
    /\ \E allowed \in can_modify_capcut :
          LET loaded == CapCutProject(disk, call.path)
          IN  IF ~allowed
              THEN /\ tool' = [call EXCEPT !.result = "CapCut project modification is disabled"]
                   /\ pc' = "tool_returned"
                   /\ UNCHANGED original
              ELSE IF loaded = <<>>
              THEN /\ tool' = [call EXCEPT !.result =
                                  IF call.name = "smart_cut_project"
                                  THEN "Project missing draft_info.json file"
                                  ELSE "Failed to add subtitles: draft_info.json not found"]
                   /\ pc' = "tool_returned"
                   /\ UNCHANGED original
              ELSE /\ tool' = call
                   /\ original' = loaded
                   /\ pc' = "tool_loaded"
    /\ UNCHANGED <<words, analyzeVars, subtitleVars,
                   disk, uuids, clock, draft, project, media>>

\* add_subtitles_to_project(project_path, transcription_data, srt_path)
InvokeAddSubtitles ==
    \E source \in {"srt", "data", "transcribe"} :
        Invoke([path |-> OriginalDir, name |-> "add_subtitles_to_project",
                subtitles |-> <<>>, source |-> source, detect_duplicates |-> FALSE,
                result |-> "", add_subtitles |-> TRUE,
                silence_threshold_sec |-> 0, video_paths |-> <<>>,
                processed |-> <<>>, transcription |-> <<>>])

\* smart_cut_project(project_path, silence_threshold_sec, detect_duplicates,
\* add_subtitles)
InvokeSmartCut ==
    \E thr \in ToolThresholds, detect \in BOOLEAN, subs \in BOOLEAN :
        Invoke([path |-> OriginalDir, name |-> "smart_cut_project",
                subtitles |-> <<>>, source |-> "transcribe",
                detect_duplicates |-> detect, result |-> "", add_subtitles |-> subs,
                silence_threshold_sec |-> thr, video_paths |-> <<>>,
                processed |-> <<>>, transcription |-> <<>>])

\* project = original.create_copy(copy_name), at a time t the clock has come
\* to.
CreateCopy ==
    /\ pc = "tool_loaded"
    /\ \E t \in clock..MaxClock :
          LET r == create_copy(original[1], project_name(original[1]) \o CopySuffix,
                               disk, uuids, t)
          IN  /\ clock' = t
              /\ original' = <<r.self>>
              /\ project' = <<r.copy>>
              /\ disk' = r.disk
              /\ uuids' = r.uuids
    /\ pc' = "tool_copied"
    /\ UNCHANGED <<words, analyzeVars, subtitleVars, draft, tool, media>>

\* The tool returns with subtitles, or with an error when there are none; ws
\* are the words of the transcription it had them made from.
ReturnOrKeep(subtitles, ws) ==
    IF subtitles = <<>>
    THEN /\ tool' = [tool EXCEPT !.result = "No subtitles generated",
                                 !.transcription = ws]
         /\ pc' = "tool_returned"
    ELSE /\ tool' = [tool EXCEPT !.subtitles = subtitles, !.transcription = ws]
         /\ pc' = "tool_subtitles"

\* add_subtitles_to_project, "Get subtitles": from the SRT file, from the
\* transcription the caller gave, or from a transcription of the first video,
\* which raises when the video does not exist and may raise when it does.
GetSubtitles ==
    /\ pc = "tool_copied"
    /\ tool.name = "add_subtitles_to_project"
    /\ \/ /\ tool.source = "srt"
          /\ \E parsed \in SrtFiles : ReturnOrKeep(parsed, <<>>)
       \/ /\ tool.source = "data"
          /\ \E ws \in ToolTranscripts : ReturnOrKeep(generate_subtitles(ws, <<>>), ws)
       \/ /\ tool.source = "transcribe"
          /\ LET video_paths == get_source_video_paths(project[1])
             IN  IF video_paths = {}
                 THEN /\ tool' = [tool EXCEPT !.result = "No video files found in project"]
                      /\ pc' = "tool_returned"
                 ELSE \E first \in video_paths :
                         \/ /\ tool' = [tool EXCEPT !.result =
                                           "Failed to add subtitles: transcribe raised"]
                            /\ pc' = "tool_returned"
                         \/ /\ first \in media
                            /\ \E ws \in ToolTranscripts :
                                  ReturnOrKeep(generate_subtitles(ws, <<>>), ws)
    /\ UNCHANGED <<words, analyzeVars, subtitleVars,
                   disk, uuids, clock, draft, original, project, media>>

\* smart_cut_project: video_paths = project.get_source_video_paths()
GetVideoSources ==
    /\ pc = "tool_copied"
    /\ tool.name = "smart_cut_project"
    /\ LET video_paths == get_source_video_paths(project[1])
       IN  IF video_paths = {}
           THEN /\ tool' = [tool EXCEPT !.result = "No video files found in project"]
                /\ pc' = "tool_returned"
           ELSE /\ \E order \in Orders(video_paths) :
                      tool' = [tool EXCEPT !.video_paths = order]
                /\ pc' = "tool_videos"
    /\ UNCHANGED <<words, analyzeVars, subtitleVars,
                   disk, uuids, clock, draft, original, project, media>>

\* smart_cut_project: one pass of "for video_path in video_paths".  A video
\* that does not exist is skipped; transcribe raises, or answers with a
\* transcript that is analysed, cut into the project and captioned.  The
\* call keeps, as all_stats["videos_processed"] counts them, the videos it
\* processed, each with the keep segments of its cut plan.
ProcessVideo ==
    /\ pc = "tool_videos"
    /\ tool.video_paths # <<>>
    /\ LET video_path == Head(tool.video_paths)
       IN  IF video_path \notin media
           THEN /\ tool' = [tool EXCEPT !.video_paths = Tail(@)]
                /\ UNCHANGED <<pc, project, uuids>>
           ELSE \/ /\ tool' = [tool EXCEPT !.result =
                                      "Failed to process project: transcribe raised"]
                   /\ pc' = "tool_returned"
                   /\ UNCHANGED <<project, uuids>>
                \/ \E ws \in ToolTranscripts :
                      LET found == find_paragraphs(ws, tool.silence_threshold_sec)
                      IN  \E reply \in IF tool.detect_duplicates /\ found # <<>>
                                       THEN ContractReplies(found) ELSE {<<>>} :
                             LET ps == IF tool.detect_duplicates /\ found # <<>>
                                       THEN detect_duplicates_in_paragraphs(found, reply)
                                       ELSE found
                                 plan == build_cut_plan(ps, ws, TranscriptDuration(ws),
                                                        tool.silence_threshold_sec)
                                 r == apply_cut_plan(project[1], plan.keep_segments,
                                                     video_path, uuids)
                             IN  /\ project' = <<r.project>>
                                 /\ uuids' = r.uuids
                                 /\ tool' = [tool EXCEPT
                                        !.video_paths = Tail(@),
                                        !.processed = Append(@,
                                            [video_path |-> video_path,
                                             keep |-> plan.keep_segments]),
                                        !.subtitles =
                                            IF tool.add_subtitles
                                            THEN @ \o generate_subtitles(ws, plan.keep_segments)
                                            ELSE @]
                                 /\ UNCHANGED pc
    /\ UNCHANGED <<words, analyzeVars, subtitleVars,
                   disk, clock, draft, original, media>>

\* project.add_text_track(subtitles, text_style), which smart_cut_project
\* calls after its loop when there are subtitles.
AddTextTrack ==
    /\ \/ pc = "tool_subtitles"
       \/ pc = "tool_videos" /\ tool.video_paths = <<>>
    /\ LET r == add_text_track(project[1], tool.subtitles, DefaultPositionY, uuids)
       IN  /\ project' = <<r.project>>
           /\ uuids' = r.uuids
    /\ pc' = "tool_tracked"
    /\ UNCHANGED <<words, analyzeVars, subtitleVars,
                   disk, clock, draft, original, tool, media>>

\* project.save() at a time t the clock has come to, and the tool returns.
SaveProject ==
    /\ pc = "tool_tracked"
    /\ \E t \in clock..MaxClock :
          LET r == save(project[1], disk, t)
          IN  /\ clock' = t
              /\ project' = <<r.project>>
              /\ disk' = r.disk
    /\ tool' = [tool EXCEPT !.result = "ok"]
    /\ pc' = "tool_returned"
    /\ UNCHANGED <<words, analyzeVars, subtitleVars,
                   uuids, draft, original, media>>

NextTools ==
    \/ InvokeAddSubtitles
    \/ InvokeSmartCut
    \/ CreateCopy
    \/ GetSubtitles
    \/ GetVideoSources
    \/ ProcessVideo
    \/ AddTextTrack
    \/ SaveProject

SpecTools == InitTools /\ [][NextTools]_vars

(***************************************************************************)
(* The library: a draft is built and saved with CapCutDraft, or a project  *)
(* is loaded with CapCutProject and its methods are called in any order,   *)
(* on the loaded object and on the copies create_copy returns.             *)
(***************************************************************************)
\* The projects that are loaded: one video material, segments that name it,
\* no track at all or a video track and a text track, with the metadata
\* document that goes with the content document.
LoadedContents ==
    {c \in ExistingContents :
        /\ Len(c.materials.videos) = 1
        /\ Len(c.tracks) \in {0, 2}
        /\ \A i \in DOMAIN SegmentsOf(SelectSeq(c.tracks, LAMBDA tr : tr.type = "video")) :
              SegmentsOf(SelectSeq(c.tracks, LAMBDA tr : tr.type = "video"))[i].material_id
                = c.materials.videos[1].id}

\* The names a caller gives.
NewNames == {"Cut"}

\* The captions a caller adds: one that starts between two microseconds.
CallerSubtitles == {<<>>, <<[start |-> 1, end |-> 12, text |-> "hi"]>>}

\* The keep segments of the cut plans a caller applies.
CallerKeepSegments == {<<>>, <<MkCutSegment(1, 4, "", "", <<>>)>>}

\* The video paths a caller applies a cut plan for.
CallerVideoPaths == {"/v/a.mp4", "/v/b.mp4"}

\* The segment lists a caller replaces the video segments with.
CallerSegments ==
    {<<>>, <<_build_video_segment(0 - 40, 0 - 1, 0, 0, 5, <<>>)>>}

\* project = CapCutProject.load(path), or draft = CapCutDraft(project_name).
InitLibrary ==
    /\ words = <<>>
    /\ AnalyzeIdle
    /\ SubtitlesIdle
    /\ tool = ToolIdle
    /\ media = {}
    /\ clock = 1
    /\ original = <<>>
    /\ \/ /\ pc = "draft"
          /\ disk = <<>>
          /\ uuids = 1
          /\ draft \in {<<NewDraft(name, 0)>> : name \in DraftNames}
          /\ project = <<>>
       \/ /\ pc = "project"
          /\ disk \in {WriteFile(WriteFile(<<>>, OriginalDir, ContentFile, content),
                                 OriginalDir, MetaFile, ExistingMeta(content)) :
                          content \in LoadedContents}
          /\ uuids = 0
          /\ draft = <<>>
          /\ project = CapCutProject(disk, OriginalDir)

\* project.project_name = value
SetProjectName ==
    /\ pc = "project"
    /\ \E value \in NewNames : project' = <<set_project_name(project[1], value)>>
    /\ UNCHANGED <<pc, words, analyzeVars, subtitleVars,
                   disk, uuids, clock, draft, original, tool, media>>

\* project.add_text_track(subtitles)
CallAddTextTrack ==
    /\ pc = "project"
    /\ \E subtitles \in CallerSubtitles :
          LET r == add_text_track(project[1], subtitles, DefaultPositionY, uuids)
          IN  /\ r.uuids <= MaxProjectIds
              /\ project' = <<r.project>>
              /\ uuids' = r.uuids
    /\ UNCHANGED <<pc, words, analyzeVars, subtitleVars,
                   disk, clock, draft, original, tool, media>>

\* project.apply_cut_plan(cut_plan, video_path)
CallApplyCutPlan ==
    /\ pc = "project"
    /\ \E keep \in CallerKeepSegments, video_path \in CallerVideoPaths :
          LET r == apply_cut_plan(project[1], keep, video_path, uuids)
          IN  /\ r.uuids <= MaxProjectIds
              /\ project' = <<r.project>>
              /\ uuids' = r.uuids
    /\ UNCHANGED <<pc, words, analyzeVars, subtitleVars,
                   disk, clock, draft, original, tool, media>>

\* project.update_video_segments(new_segments)
CallUpdateVideoSegments ==
    /\ pc = "project"
    /\ \E new_segments \in CallerSegments :
          project' = <<update_video_segments(project[1], new_segments)>>
    /\ UNCHANGED <<pc, words, analyzeVars, subtitleVars,
                   disk, uuids, clock, draft, original, tool, media>>

\* project.save(), at a time t the clock has come to.
CallSave ==
    /\ pc = "project"
    /\ \E t \in clock..MaxClock :
          LET r == save(project[1], disk, t)
          IN  /\ project' = <<r.project>>
              /\ disk' = r.disk
              /\ clock' = t
    /\ UNCHANGED <<pc, words, analyzeVars, subtitleVars,
                   uuids, draft, original, tool, media>>

\* project = project.create_copy(new_name), at a time t the clock has come
\* to; original is the object the copy was made of.
CallCreateCopy ==
    /\ pc = "project"
    /\ \E new_name \in NewNames, t \in clock..MaxClock :
          LET r == create_copy(project[1], new_name, disk, uuids, t)
          IN  /\ r.uuids <= MaxProjectIds
              /\ project' = <<r.copy>>
              /\ original' = <<r.self>>
              /\ disk' = r.disk
              /\ uuids' = r.uuids
              /\ clock' = t
    /\ UNCHANGED <<pc, words, analyzeVars, subtitleVars, draft, tool, media>>

NextLibrary ==
    \/ AddVideoMaterial
    \/ AddVideoSegment
    \/ AddTextMaterial
    \/ AddTextSegment
    \/ SaveDraft
    \/ SetProjectName
    \/ CallAddTextTrack
    \/ CallApplyCutPlan
    \/ CallUpdateVideoSegments
    \/ CallSave
    \/ CallCreateCopy

SpecLibrary == InitLibrary /\ [][NextLibrary]_vars

(***************************************************************************)
(* One call of a mutating method of CapCutProject on a loaded project:     *)
(* original is the object before the call, tool the call and project the   *)
(* object after it.                                                        *)
(***************************************************************************)
\* The keep segments of a cut plan, in any order.
MutatorKeepLists ==
    {[i \in DOMAIN ts |-> MkCutSegment(ts[i].start, ts[i].end, "", "", <<>>)] :
        ts \in SeqsUpTo(SegmentTimes, MaxSegments)}

\* The video paths a cut plan is applied for; the last is the path of no
\* material as the document writes it.
MutatorVideoPaths == {"/v/a.mp4", "/v/b.mp4", "/v/c.mp4"}

\* The captions of a call: the i-th is shown from tick 3i - 2 to tick 3i.
MutatorSubtitles ==
    {[i \in 1..k |-> [start |-> 3 * i - 2, end |-> 3 * i, text |-> WordText(i)]] :
        k \in 0..MaxCaptions}

\* style.position_y: the default, or the middle of the screen.
MutatorPositions == {DefaultPositionY, 5}

\* project = CapCutProject.load(path) of any project.
InitMutator ==
    /\ words = <<>>
    /\ AnalyzeIdle
    /\ SubtitlesIdle
    /\ tool = ToolIdle
    /\ media = {}
    /\ clock = 1
    /\ original = <<>>
    /\ pc = "mutator"
    /\ disk \in {WriteFile(WriteFile(<<>>, OriginalDir, ContentFile, content),
                           OriginalDir, MetaFile, ExistingMeta(content)) :
                    content \in ExistingContents}
    /\ uuids = 0
    /\ draft = <<>>
    /\ project = CapCutProject(disk, OriginalDir)

\* project.apply_cut_plan({"keep_segments": keep}, video_path)
MutateApplyCutPlan ==
    /\ pc = "mutator"
    /\ \E keep \in MutatorKeepLists, video_path \in MutatorVideoPaths :
          LET r == apply_cut_plan(project[1], keep, video_path, uuids)
          IN  /\ tool' = [name |-> "apply_cut_plan", keep |-> keep,
                          video_path |-> video_path, result |-> ""]
              /\ project' = <<r.project>>
              /\ uuids' = r.uuids
    /\ original' = project
    /\ pc' = "mutated"
    /\ UNCHANGED <<words, analyzeVars, subtitleVars, disk, clock, draft, media>>

\* project.add_text_track(subtitles, TextStyle(position_y=position_y))
MutateAddTextTrack ==
    /\ pc = "mutator"
    /\ \E subtitles \in MutatorSubtitles, position_y \in MutatorPositions :
          LET r == add_text_track(project[1], subtitles, position_y, uuids)
          IN  /\ tool' = [name |-> "add_text_track", position_y |-> position_y,
                          subtitles |-> subtitles, result |-> ""]
              /\ project' = <<r.project>>
              /\ uuids' = r.uuids
    /\ original' = project
    /\ pc' = "mutated"
    /\ UNCHANGED <<words, analyzeVars, subtitleVars, disk, clock, draft, media>>

\* project.update_video_segments(new_segments)
MutateUpdateVideoSegments ==
    /\ pc = "mutator"
    /\ \E new_segments \in CallerSegments :
          /\ tool' = [name |-> "update_video_segments", new_segments |-> new_segments,
                      result |-> ""]
          /\ project' = <<update_video_segments(project[1], new_segments)>>
    /\ original' = project
    /\ pc' = "mutated"
    /\ UNCHANGED <<words, analyzeVars, subtitleVars, disk, uuids, clock, draft, media>>

NextMutator == MutateApplyCutPlan \/ MutateAddTextTrack \/ MutateUpdateVideoSegments

SpecMutator == InitMutator /\ [][NextMutator]_vars

(***************************************************************************)
(* Saving a loaded project when the file system may fail.                  *)
(***************************************************************************)
\* project.save() at a time t the clock has come to; original keeps the
\* object and tool the call.  A caller that gets the error stops.
SaveProjectFiles ==
    /\ pc = "project"
    /\ \E t \in clock..MaxClock, fault \in IOFaults :
          LET r == save_io(project[1], disk, t, fault)
          IN  /\ project' = <<r.project>>
              /\ disk' = r.disk
              /\ clock' = t
              /\ tool' = [name |-> "save", fault |-> fault, time |-> t]
              /\ pc' = IF r.raised THEN "save_raised" ELSE "project"
    /\ original' = project
    /\ UNCHANGED <<words, analyzeVars, subtitleVars, uuids, draft, media>>

InitSave ==
    /\ InitLibrary
    /\ pc = "project"

NextSave == SetProjectName \/ CallAddTextTrack \/ SaveProjectFiles

SpecSave == InitSave /\ [][NextSave]_vars

(***************************************************************************)
(* Listing the projects of a drafts directory.                             *)
(***************************************************************************)
\* What the metadata file of a folder may hold: a cut-short file, an object
\* with a null duration, an object with no key, and well-formed objects that
\* differ in their modification time.
ListedMetas ==
    {Truncated,
     [draft_name |-> JString("clip"), tm_duration |-> JNull, tm_draft_modified |-> JNumber(1)],
     EmptyDoc}
    \cup {[draft_name |-> JString("clip"), tm_duration |-> JNumber(4),
           tm_draft_modified |-> JNumber(t)] : t \in 1..MaxClock}

\* What its content file may hold: a cut-short file or a document.
ListedContents ==
    {Truncated, [materials |-> [videos |-> <<[id |-> 0 - 1, path |-> "/v/a.mp4",
                                              duration |-> 4]>>]]}

\* The files of a folder: each of the two is there or not.
FolderFiles(folder) ==
    {[k \in keys |-> IF k[2] = MetaFile THEN meta ELSE content] :
        keys \in SUBSET {<<folder, MetaFile>>, <<folder, DraftContentFile>>},
        meta \in ListedMetas, content \in ListedContents}

\* The drafts directories with folders 1..n.
RECURSIVE DraftsDirs(_)
DraftsDirs(n) ==
    IF n = 0 THEN {<<>>}
    ELSE {[k \in (DOMAIN d) \cup (DOMAIN f) |-> IF k \in DOMAIN f THEN f[k] ELSE d[k]] :
             d \in DraftsDirs(n - 1), f \in FolderFiles(n)}

InitList ==
    /\ words = <<>>
    /\ AnalyzeIdle
    /\ SubtitlesIdle
    /\ tool = ToolIdle
    /\ media = {}
    /\ clock = 0
    /\ original = <<>>
    /\ project = <<>>
    /\ draft = <<>>
    /\ pc = "listing"
    /\ uuids = 0
    /\ disk \in DraftsDirs(MaxFolders)

\* list_projects(drafts_dir), iterdir giving the folders in any order.  A
\* folder with neither file is passed over like one without metadata.
ListProjects ==
    /\ pc = "listing"
    /\ \E folders \in Orders({k[1] : k \in DOMAIN disk}) :
          tool' = [name |-> "list_projects", result |-> "", folders |-> folders,
                   projects |-> list_projects(disk, folders)]
    /\ pc' = "listed"
    /\ UNCHANGED <<words, analyzeVars, subtitleVars, disk, uuids, clock, draft,
                   original, project, media>>

NextList == ListProjects

SpecList == InitList /\ [][NextList]_vars

(***************************************************************************)
(* One cut plan exported as a new draft and applied to an existing project. *)
(***************************************************************************)
\* The video files the export may be given, and the one that exists.
ExportPaths == {"/v/a.mp4", "/v/b.mp4"}

ExportMedia == {"/v/a.mp4"}

InitExport ==
    /\ words = <<>>
    /\ AnalyzeIdle
    /\ SubtitlesIdle
    /\ tool = ToolIdle
    /\ media = ExportMedia
    /\ clock = 1
    /\ original = <<>>
    /\ pc = "export"
    /\ disk \in {WriteFile(WriteFile(<<>>, OriginalDir, ContentFile, content),
                           OriginalDir, MetaFile, ExistingMeta(content)) :
                    content \in ExistingContents}
    /\ uuids = 0
    /\ draft = <<>>
    /\ project = CapCutProject(disk, OriginalDir)

\* generate_capcut_project(file_path, cut_plan_data, project_name)
ExportGenerate ==
    /\ pc = "export"
    /\ \E keep \in MutatorKeepLists, file_path \in ExportPaths :
          LET r == generate_capcut_project(file_path, keep, "clip", MaxTime, media, uuids)
          IN  /\ tool' = [name |-> "generate_capcut_project", keep |-> keep,
                          video_path |-> file_path, result |-> ""]
              /\ draft' = r.draft
              /\ uuids' = r.uuids
              /\ pc' = IF r.raised THEN "export_raised" ELSE "exported"
    /\ UNCHANGED <<words, analyzeVars, subtitleVars, disk, clock, original,
                   project, media>>

\* project.apply_cut_plan(cut_plan, video_path) with the cut plan and the
\* video of the export.
ExportApplyCutPlan ==
    /\ pc = "exported"
    /\ LET r == apply_cut_plan(project[1], tool.keep, tool.video_path, uuids)
       IN  /\ project' = <<r.project>>
           /\ uuids' = r.uuids
    /\ original' = project
    /\ pc' = "applied"
    /\ UNCHANGED <<words, analyzeVars, subtitleVars, disk, clock, draft, tool, media>>

NextExport == ExportGenerate \/ ExportApplyCutPlan

SpecExport == InitExport /\ [][NextExport]_vars

(***************************************************************************)
(* Properties.                                                             *)
(***************************************************************************)
\* The ways to split positions 1..n into consecutive non-empty chunks, each
\* given as the ascending sequence of its chunks' last positions.
RECURSIVE AscendingSeq(_)
AscendingSeq(S) ==
    IF S = {} THEN <<>>
    ELSE LET m == CHOOSE x \in S : \A y \in S : x <= y
         IN  <<m>> \o AscendingSeq(S \ {m})

Chunkings(n) ==
    IF n = 0 THEN {<<>>}
    ELSE {AscendingSeq(c \cup {n}) : c \in SUBSET (1..(n - 1))}

ChunkFirst(ends, k) == IF k = 1 THEN 1 ELSE ends[k - 1] + 1

\* C1: the keep segments of every cut plan built from the segmenter's
\* paragraphs (after the duplicate resolver, when it ran) are in ascending
\* order of start, and each ends no later than the next starts.
C1_KeepSegmentsOrdered ==
    cut_plan # <<>> =>
        LET keep == cut_plan[1].keep_segments
        IN  \A i \in 1..(Len(keep) - 1) :
                /\ keep[i].start <= keep[i + 1].start
                /\ keep[i].end <= keep[i + 1].start

\* A plan with two keep segments on either side of a removed duplicate.
C1_Witness ==
    /\ pc = "planned"
    /\ Len(cut_plan[1].keep_segments) >= 2
    /\ cut_plan[1].stats.duplicates_removed >= 1

\* C2: the paragraphs find_paragraphs returns split the word list into
\* consecutive non-empty runs that cover it to its last word (each paragraph's
\* text, start and end are those of its run), and each paragraph starts at
\* least the threshold after the one before it ends.
C2_ParagraphsPartitionWords ==
    pc = "paragraphs" =>
        /\ \E ends \in Chunkings(Len(words)) :
              /\ Len(paragraphs) = Len(ends)
              /\ \A k \in DOMAIN paragraphs :
                    LET first == ChunkFirst(ends, k)
                    IN  /\ paragraphs[k].text =
                              JoinSpace([j \in 1..(ends[k] - first + 1) |->
                                            words[first + j - 1].word])
                        /\ paragraphs[k].start = words[first].start
                        /\ paragraphs[k].end = words[ends[k]].end
        /\ \A k \in 1..(Len(paragraphs) - 1) :
              paragraphs[k + 1].start - paragraphs[k].end >= threshold

\* Several paragraphs, one of them of several words.
C2_Witness ==
    /\ pc = "paragraphs"
    /\ Len(paragraphs) >= 2
    /\ Len(words) > Len(paragraphs)

\* C3: no word map_words_to_timeline emits, the last one included, ends on
\* the compressed clock after the sum of the keep segments' durations.
C3_LastWordWithinKeptDuration ==
    pc \in {"mapped", "no_words"} =>
        \A i \in DOMAIN timeline_words :
            timeline_words[i].end <= SpanSum(keep_segments)

\* The last emitted word ran past the end of the last keep segment and was
\* clamped to the total kept duration.
C3_Witness ==
    /\ pc = "mapped"
    /\ timeline_words[Len(timeline_words)].end = SpanSum(keep_segments)
    /\ \E i \in DOMAIN words :
          words[i].end > keep_segments[Len(keep_segments)].end
          /\ words[i].start >= keep_segments[Len(keep_segments)].start
          /\ words[i].start < keep_segments[Len(keep_segments)].end

\* C4 as stated: the spans of the emitted words sum to at most the sum of the
\* keep segments' durations, for every word list.
C4_SpansWithinKeptDuration ==
    pc \in {"mapped", "no_words"} =>
        SpanSum(timeline_words) <= SpanSum(keep_segments)

\* No word of the transcript ends after the next one starts.
WordsDisjoint == \A i \in 1..(Len(words) - 1) : words[i].end <= words[i + 1].start

\* C4, amended: when no word overlaps the next in time, the spans of the
\* emitted words sum to at most the sum of the keep segments' durations.
C4_DisjointSpansWithinKeptDuration ==
    (pc \in {"mapped", "no_words"} /\ WordsDisjoint) =>
        SpanSum(timeline_words) <= SpanSum(keep_segments)

\* Disjoint words fill the kept duration exactly, one of them clamped.
C4_Witness ==
    /\ pc = "mapped"
    /\ WordsDisjoint
    /\ Len(timeline_words) >= 2
    /\ SpanSum(timeline_words) = SpanSum(keep_segments)
    /\ \E i \in DOMAIN words : words[i].end > keep_segments[Len(keep_segments)].end

\* C5: the lines of group_words_into_lines are consecutive runs of the words
\* (each line starts with its first word and ends with its last), no run is
\* longer than max_words, and the text of a run of two or more words is at
\* most max_chars long.
C5_LinesWithinLimits ==
    pc = "grouped" =>
        \E ends \in Chunkings(Len(timeline_words)) :
            /\ Len(subtitle_lines) = Len(ends)
            /\ \A k \in DOMAIN subtitle_lines :
                  LET first == ChunkFirst(ends, k)
                      count == ends[k] - first + 1
                  IN  /\ subtitle_lines[k].start = timeline_words[first].start
                      /\ subtitle_lines[k].end = timeline_words[ends[k]].end
                      /\ count <= max_words
                      /\ count >= 2 => Len(subtitle_lines[k].text) <= max_chars

\* A line closed at max_words words beside a single word longer than max_chars.
C5_Witness ==
    /\ pc = "grouped"
    /\ max_words >= 2
    /\ \E k \in DOMAIN subtitle_lines :
          /\ subtitle_lines[k].end - subtitle_lines[k].start = max_words
          /\ k < Len(subtitle_lines)
    /\ \E k \in DOMAIN subtitle_lines :
          /\ subtitle_lines[k].end - subtitle_lines[k].start = 1
          /\ Len(subtitle_lines[k].text) > max_chars

\* C9 as stated: every paragraph whose id is in a group's remove list is
\* removed with that group's reason and that group's keep id.
C9_RemovedCarryTheirGroup ==
    pc = "resolved" =>
        \A i \in DOMAIN oracle : \A k \in DOMAIN paragraphs :
            paragraphs[k].id \in oracle[i].remove =>
                /\ paragraphs[k].action = "remove"
                /\ paragraphs[k].reason = "duplicate_take: " \o oracle[i].reason
                /\ paragraphs[k].group_id = <<oracle[i].keep>>

\* C9, amended: every paragraph whose id is in some group's remove list is
\* removed; its reason and group_id are those of the last group of the reply
\* whose block_ids hold its id, and "duplicate_take" and None when no group's
\* block_ids hold it.
C9_RemovedCarryLastHolder ==
    pc = "resolved" =>
        \A k \in DOMAIN paragraphs :
            LET p == paragraphs[k]
                holders == {i \in DOMAIN oracle : p.id \in oracle[i].block_ids}
            IN  (\E i \in DOMAIN oracle : p.id \in oracle[i].remove) =>
                    /\ p.action = "remove"
                    /\ holders = {} => (p.reason = "duplicate_take" /\ p.group_id = <<>>)
                    /\ \A i \in holders :
                          (\A j \in holders : j <= i) =>
                              /\ p.reason = "duplicate_take: " \o oracle[i].reason
                              /\ p.group_id = <<oracle[i].keep>>

\* A paragraph removed by the first group and held by the second, and a
\* paragraph removed by a group that does not hold it.
C9_Witness ==
    /\ pc = "resolved"
    /\ Len(oracle) = 2
    /\ \E k \in DOMAIN paragraphs :
          /\ paragraphs[k].id \in oracle[1].remove \cap oracle[1].block_ids
          /\ paragraphs[k].id \in oracle[2].block_ids \ oracle[2].remove
          /\ paragraphs[k].action = "remove"
    /\ \E k \in DOMAIN paragraphs :
          /\ paragraphs[k].id \in oracle[2].remove
          /\ paragraphs[k].id \notin oracle[1].block_ids \cup oracle[2].block_ids

\* C10: the resolver returns the same paragraphs in the same order with id,
\* start, end and text unchanged; a paragraph in some group's block_ids and in
\* no remove list becomes keep / "best_take" / its own id; a paragraph in no
\* group's block_ids or remove list is returned as it was.
C10_SurvivorsAndOthers ==
    [][(pc = "paragraphs" /\ pc' = "resolved") =>
          /\ Len(paragraphs') = Len(paragraphs)
          /\ \A k \in DOMAIN paragraphs :
                LET p == paragraphs[k]
                    q == paragraphs'[k]
                    held == \E i \in DOMAIN oracle' : p.id \in oracle'[i].block_ids
                    removed == \E i \in DOMAIN oracle' : p.id \in oracle'[i].remove
                IN  /\ q.id = p.id /\ q.start = p.start
                    /\ q.end = p.end /\ q.text = p.text
                    /\ (held /\ ~removed) =>
                          (q.action = "keep" /\ q.reason = "best_take"
                           /\ q.group_id = <<p.id>>)
                    /\ (~held /\ ~removed) => q = p]_vars

\* A survivor that is not its group's keep id, beside a paragraph in no group.
C10_Witness ==
    /\ pc = "resolved"
    /\ \E k \in DOMAIN paragraphs : \E i \in DOMAIN oracle :
          /\ paragraphs[k].id \in oracle[i].block_ids
          /\ paragraphs[k].id # oracle[i].keep
          /\ paragraphs[k].reason = "best_take"
    /\ \E k \in DOMAIN paragraphs :
          /\ paragraphs[k].id \notin GroupMapKeys(oracle) \cup RemoveIds(oracle)
          /\ paragraphs[k].reason = ""

(***************************************************************************)
(* Draft round trip, project copies and the tools that work on copies.     *)
(***************************************************************************)
\* C6: a project built with CapCutDraft and saved with CapCutDraft.save, once
\* its folder is loaded with CapCutProject, gives back the paths of the
\* materials, the timeline start and the duration of every segment, and the
\* duration of the project.
C6_DraftRoundTrip ==
    pc = "draft_loaded" =>
        /\ project # <<>>
        /\ LET dr == draft[1]
               materials == get_video_materials(project[1])
               segments == get_video_segments(project[1])
           IN  /\ [i \in DOMAIN materials |-> materials[i].path]
                    = [i \in DOMAIN dr.video_materials |-> dr.video_materials[i].file_path]
               /\ [i \in DOMAIN segments |->
                      <<segments[i].timeline_start, segments[i].duration>>]
                    = [i \in DOMAIN dr.video_segments |->
                          <<FromMicroseconds(dr.video_segments[i].timeline_start_us),
                            FromMicroseconds(dr.video_segments[i].duration_us)>>]
               /\ project_duration(project[1])
                    = FromMicroseconds(_calculate_total_duration(dr))

\* C7: create_copy leaves the source project as it was: a create_copy step
\* changes no file that was on the disk, the source's content and metadata
\* documents among them, leaves the object it was called on with the documents
\* it had, and writes new files only in the directory named by the fresh id.
C7_CreateCopyLeavesSource ==
    [][(pc = "tool_loaded" /\ pc' = "tool_copied") =>
          /\ original' = original
          /\ \A k \in DOMAIN disk : k \in DOMAIN disk' /\ disk'[k] = disk[k]
          /\ \A k \in (DOMAIN disk') \ (DOMAIN disk) : k[1] = generate_uuid(uuids)
          /\ (DOMAIN disk') \ (DOMAIN disk) # {}]_vars

\* create_copy has returned a copy under a fresh id and a new name, next to a
\* source that has both of its documents.
C7_Witness ==
    /\ pc = "tool_copied"
    /\ project # <<>>
    /\ original # <<>>
    /\ project[1].project_path = uuids
    /\ project[1].project_path # original[1].project_path
    /\ <<original[1].project_path, MetaFile>> \in DOMAIN disk
    /\ <<project[1].project_path, ContentFile>> \in DOMAIN disk
    /\ disk[<<project[1].project_path, ContentFile>>].name
         = project_name(original[1]) \o CopySuffix
    /\ disk[<<original[1].project_path, ContentFile>>].name = project_name(original[1])

\* The copy a tool works on is on the disk with both of its documents, in a
\* directory other than the one the tool was pointed at.
CopyWritten ==
    /\ project # <<>>
    /\ project[1].project_path # tool.path
    /\ <<project[1].project_path, ContentFile>> \in DOMAIN disk
    /\ <<project[1].project_path, MetaFile>> \in DOMAIN disk

\* C8: in a run of add_subtitles_to_project or smart_cut_project, nothing is
\* changed before create_copy, create_copy ends with the copy written, and
\* every later step that changes a project object or the disk (add_text_track,
\* apply_cut_plan, save) finds the copy written, changes the copy and files of
\* the copy's directory only, and leaves the located project, in memory and on
\* the disk, as it was.
C8_CopyBeforeMutation ==
    [][/\ (pc = "tool_idle" => disk' = disk /\ project' = project)
       /\ (pc = "tool_loaded" /\ pc' = "tool_copied" => CopyWritten')
       /\ (/\ pc \in {"tool_copied", "tool_subtitles", "tool_videos", "tool_tracked"}
           /\ <<disk', original', project'>> # <<disk, original, project>>)
          => /\ CopyWritten
             /\ original' = original
             /\ project'[1].project_path = project[1].project_path
             /\ \A k \in DOMAIN disk : k \in DOMAIN disk'
             /\ \A k \in DOMAIN disk' :
                   k[1] # project[1].project_path => k \in DOMAIN disk /\ disk'[k] = disk[k]]_vars

\* smart_cut_project has returned after it cut the video track of the copy,
\* added captions to it and saved it; the located project is as it was loaded.
C8_Witness ==
    /\ pc = "tool_returned"
    /\ tool.name = "smart_cut_project"
    /\ tool.result = "ok"
    /\ tool.subtitles # <<>>
    /\ SegmentsOf(TracksOfType(project[1], "video"))
         # SegmentsOf(TracksOfType(original[1], "video"))
    /\ FirstTrack(project[1].content.tracks, "text") # 0
    /\ disk[<<project[1].project_path, ContentFile>>] = project[1].content
    /\ disk[<<tool.path, ContentFile>>] = original[1].content

(***************************************************************************)
(* Oracle failure.                                                         *)
(***************************************************************************)
\* The value is of the JSON type the field is declared with.
WellTyped(k, v) ==
    IF k \in {"block_ids", "remove"}
    THEN v.json = "list" /\ \A x \in v.items : x.json = "number"
    ELSE IF k = "keep" THEN v.json = "number"
    ELSE v.json = "string"

\* The failures C11 lists: a request error, a reply that is not JSON, a group
\* with a missing field or with a field of another type than declared.
ListedFailure(response) ==
    \/ response.kind \in {"request_error", "not_json"}
    \/ /\ response.kind = "json_object"
       /\ "groups" \in DOMAIN response.doc
       /\ \E i \in DOMAIN response.doc["groups"].elems :
             LET g == response.doc["groups"].elems[i]
             IN  \/ DOMAIN g # {"block_ids", "keep", "remove", "reason"}
                 \/ \E k \in DOMAIN g : ~WellTyped(k, g[k])

\* A value the field cannot be made of: no list of integers or of digit
\* strings for block_ids and remove, no integer or digit string for keep, no
\* string for reason.
Unusable(k, v) ==
    LET integral(x) == x.json = "number" \/ (x.json = "string" /\ x.text \in DigitStrings)
    IN  IF k \in {"block_ids", "remove"}
        THEN ~(v.json = "list" /\ \A x \in v.items : integral(x))
        ELSE IF k = "keep" THEN ~integral(v)
        ELSE v.json # "string"

\* The failures of the oracle call: a request error, a reply that is not a
\* JSON object, a "groups" that is no list, a group without block_ids, keep or
\* remove, a group with a value its field cannot be made of.
OracleFailure(response) ==
    \/ response.kind \in {"request_error", "not_json", "json_list"}
    \/ /\ response.kind = "json_object"
       /\ "groups" \in DOMAIN response.doc
       /\ \/ response.doc["groups"].json # "list"
          \/ \E i \in DOMAIN response.doc["groups"].elems :
                LET g == response.doc["groups"].elems[i]
                IN  \/ \E k \in {"block_ids", "keep", "remove"} : k \notin DOMAIN g
                    \/ \E k \in DOMAIN g : Unusable(k, g[k])

\* Detection degraded to "no duplicates found" and the pipeline went on.
Degraded ==
    /\ pc # "raised"
    /\ pc \in {"resolved", "planned"} =>
          /\ oracle = <<>>
          /\ paragraphs = find_paragraphs(words, threshold)
          /\ \A k \in DOMAIN paragraphs : paragraphs[k].action = "keep"
    /\ pc = "resolved" => ENABLED BuildCutPlan
    /\ pc = "planned" =>
          /\ cut_plan # <<>>
          /\ Len(cut_plan[1].keep_segments) = Len(paragraphs)
          /\ cut_plan[1].stats.duplicates_removed = 0

\* C11 as stated: after any request error, non-JSON reply or reply with a
\* group that misses a field or has a field of another type than declared,
\* detection yields no groups, no exception reaches analyze_content, every
\* paragraph keeps action keep and the cut plan is built.
C11_ListedFailuresDegrade ==
    (tool.name = "analyze_content" /\ ListedFailure(tool.response)) => Degraded

\* C11, amended: the same after a request error, a reply that is not a JSON
\* object, a "groups" that is no list, a group without block_ids, keep or
\* remove, or a group with a value its field cannot be made of.  (A group
\* without reason, or with digit strings for integers, is no failure.)
C11_OracleFailureDegrades ==
    (tool.name = "analyze_content" /\ OracleFailure(tool.response)) => Degraded

\* The plan was built after a reply whose second group lacks its keep field,
\* the first group being well-formed: neither group was applied.
C11_Witness ==
    /\ pc = "planned"
    /\ tool.name = "analyze_content"
    /\ tool.response.kind = "json_object"
    /\ "groups" \in DOMAIN tool.response.doc
    /\ LET elems == tool.response.doc["groups"].elems
       IN  /\ Len(elems) = 2
           /\ ParseGroup(elems[1]) # <<>>
           /\ "keep" \notin DOMAIN elems[2]
    /\ Len(paragraphs) = 3
    /\ Len(cut_plan[1].keep_segments) = 3

(***************************************************************************)
(* The statistics and the coverage of a cut plan.                          *)
(***************************************************************************)
\* C12: the statistics of a built cut plan are those of its segment lists:
\* kept_duration is the sum of end - start over keep_segments and
\* removed_duration the same sum over remove_segments, duplicates_removed is
\* the number of paragraphs with action remove, silences_removed the number
\* of remove segments tagged "long_silence", and original_duration is the
\* duration of the transcription.
C12_StatsFromSegments ==
    cut_plan # <<>> =>
        LET plan == cut_plan[1]
            keep == plan.keep_segments
            rem == plan.remove_segments
        IN  /\ plan.stats.kept_duration
                 = SumSeq([i \in DOMAIN keep |-> keep[i].end - keep[i].start])
            /\ plan.stats.removed_duration
                 = SumSeq([i \in DOMAIN rem |-> rem[i].end - rem[i].start])
            /\ plan.stats.duplicates_removed
                 = Cardinality({k \in DOMAIN paragraphs : paragraphs[k].action = "remove"})
            /\ plan.stats.silences_removed
                 = Cardinality({i \in DOMAIN rem : rem[i].reason = <<"long_silence">>})
            /\ plan.stats.original_duration = duration

\* A plan that keeps some time, removes a duplicate and removes a silence.
C12_Witness ==
    /\ pc = "planned"
    /\ cut_plan[1].stats.kept_duration > 0
    /\ cut_plan[1].stats.duplicates_removed >= 1
    /\ cut_plan[1].stats.silences_removed >= 1
    /\ cut_plan[1].stats.removed_duration > 0
    /\ cut_plan[1].stats.kept_duration < cut_plan[1].stats.original_duration

\* C13: the keep and remove segments of a built cut plan partition
\* [0, original_duration]: every segment lies inside it, no two segments
\* overlap, and every stretch of it that no segment covers is shorter than
\* the silence threshold.
C13_SegmentsPartitionDuration ==
    cut_plan # <<>> =>
        LET segs == cut_plan[1].keep_segments \o cut_plan[1].remove_segments
            dur == cut_plan[1].stats.original_duration
            covered(t) == \E i \in DOMAIN segs : segs[i].start <= t /\ t + 1 <= segs[i].end
        IN  /\ \A i \in DOMAIN segs :
                  0 <= segs[i].start /\ segs[i].start <= segs[i].end /\ segs[i].end <= dur
            /\ \A i, j \in DOMAIN segs :
                  i # j => (segs[i].end <= segs[j].start \/ segs[j].end <= segs[i].start)
            /\ \A a, b \in 0..dur :
                  (a < b /\ \A t \in a..(b - 1) : ~covered(t)) => b - a < threshold

(***************************************************************************)
(* The documents of a project.                                             *)
(***************************************************************************)
\* The directories of the disk, and the content document of one: the file the
\* loader reads, or the file the draft builder writes.
Directories == {k[1] : k \in DOMAIN disk}

ContentOf(dir) ==
    IF <<dir, ContentFile>> \in DOMAIN disk
    THEN disk[<<dir, ContentFile>>]
    ELSE disk[<<dir, DraftContentFile>>]

\* C14: the content document and the metadata document of every project on
\* the disk carry the same id, the same name and the same duration, whether
\* CapCutDraft.save wrote them or they were loaded consistent and written
\* after any calls of create_copy, the project_name setter, add_text_track,
\* apply_cut_plan, update_video_segments and save.
C14_DocumentsConsistent ==
    \A dir \in Directories :
        LET content == ContentOf(dir)
            meta == disk[<<dir, MetaFile>>]
        IN  /\ <<dir, MetaFile>> \in DOMAIN disk
            /\ content["id"] = meta["draft_id"]
            /\ content["name"] = meta["draft_name"]
            /\ content["duration"] = meta["tm_duration"]

\* A copy was renamed, cut and captioned and saved: its documents differ from
\* those of the project it was copied from in id, name and duration.
C14_Witness ==
    /\ pc = "project"
    /\ project # <<>>
    /\ LET dir == project[1].project_path
           content == disk[<<dir, ContentFile>>]
           source == disk[<<OriginalDir, ContentFile>>]
       IN  /\ content = project[1].content
           /\ content["id"] # source["id"]
           /\ content["name"] # source["name"]
           /\ content["duration"] # source["duration"]
           /\ Len(content.materials.texts) > Len(source.materials.texts)
           /\ SegmentsOf(TracksOfType(project[1], "video"))
                # SegmentsOf(SelectSeq(source.tracks, LAMBDA tr : tr.type = "video"))

\* Every segment of the tracks of a content document names a material of the
\* document's list of the track's kind.
ReferencesExist(content) ==
    \A i \in DOMAIN content.tracks :
        LET track == content.tracks[i]
            materials == IF track.type = "video" THEN content.materials.videos
                         ELSE content.materials.texts
        IN  \A j \in DOMAIN track.segments :
                \E m \in DOMAIN materials : materials[m].id = track.segments[j].material_id

\* C15: every segment references an existing material of its kind, in the
\* document CapCutDraft produces after any add_video_material,
\* add_video_segment, add_text_material and add_text_segment calls, and in a
\* loaded project after any add_text_track and apply_cut_plan.
C15_SegmentsReferenceMaterials ==
    /\ \A dir \in Directories : ReferencesExist(ContentOf(dir))
    /\ project # <<>> => ReferencesExist(project[1].content)

(***************************************************************************)
(* Failed validation.                                                      *)
(***************************************************************************)
\* What a tool returns when its input fails validation: the project has no
\* content document, it has no video material, or there is no subtitle.
ValidationError(result) ==
    \/ result = "Project missing draft_info.json file"
    \/ result = "Failed to add subtitles: draft_info.json not found"
    \/ result = "No video files found in project"
    \/ result = "No subtitles generated"

\* C16: a tool that returns a validation error has left nothing behind: the
\* disk holds no directory but the one the tool was pointed at.
C16_FailedValidationLeavesNothing ==
    (pc = "tool_returned" /\ ValidationError(tool.result)) =>
        \A k \in DOMAIN disk : k[1] = tool.path

(***************************************************************************)
(* The worked example of the analysis.                                     *)
(***************************************************************************)
\* The example has been analysed and no paragraph was found a duplicate.
ExampleAnalysed ==
    /\ words = SpokenExample.words
    /\ threshold = SpokenExample.threshold
    /\ pc = "planned"
    /\ \A k \in DOMAIN paragraphs : paragraphs[k].action = "keep"

\* All of the example's result but the kept duration, in tenths of a second:
\* the paragraphs [0, 1.0] "hi there" and [5.0, 5.4] "world", the keep
\* segments {0, 1.0} and {5.0, 5.4}, the one remove segment
\* {1.0, 5.0, "long_silence"} and silences_removed = 1.
ExampleResult ==
    LET plan == cut_plan[1]
    IN  /\ [k \in DOMAIN paragraphs |->
               <<paragraphs[k].id, paragraphs[k].start, paragraphs[k].end, paragraphs[k].text>>]
             = <<(<<0, 0, 10, "hi there">>), (<<1, 50, 54, "world">>)>>
        /\ [i \in DOMAIN plan.keep_segments |->
               <<plan.keep_segments[i].start, plan.keep_segments[i].end>>]
             = <<(<<0, 10>>), (<<50, 54>>)>>
        /\ [i \in DOMAIN plan.remove_segments |->
               <<plan.remove_segments[i].start, plan.remove_segments[i].end,
                 plan.remove_segments[i].reason>>]
             = <<(<<10, 50, <<"long_silence">>>>)>>
        /\ plan.stats.silences_removed = 1

\* C17 as stated: the example gives those paragraphs and segments and a
\* kept_duration of 0.9.
C17_ExampleKeepsNineTenths ==
    ExampleAnalysed => (ExampleResult /\ cut_plan[1].stats.kept_duration = 9)

\* C17, amended: the example gives those paragraphs and segments and a
\* kept_duration of 1.4, the sum of 1.0 and 0.4.
C17_ExampleKeepsFourteenTenths ==
    ExampleAnalysed => (ExampleResult /\ cut_plan[1].stats.kept_duration = 14)

\* The example went through the pipeline with duplicate detection off.
C17_Witness ==
    /\ ExampleAnalysed
    /\ oracle = <<>>
    /\ Len(cut_plan[1].keep_segments) = 2
    /\ cut_plan[1].keep_segments[1].end_word = "there"

(***************************************************************************)
(* The walk of build_cut_plan.                                             *)
(***************************************************************************)
\* The orders of n positions.
WalkOrders(n) == {f \in [1..n -> 1..n] : \A i, j \in 1..n : i # j => f[i] # f[j]}

\* What the walk appends to the remove list from the k-th paragraph of ps on,
\* as <<start, end, reason>>: before a paragraph that starts a threshold or
\* more after the one before it ended (after 0 for the first), the silence
\* between them; for a removed paragraph, the paragraph with its reason.
RECURSIVE WalkRemoves(_, _, _)
WalkRemoves(ps, thr, k) ==
    IF k > Len(ps) THEN <<>>
    ELSE LET before == IF k = 1 THEN 0 ELSE ps[k - 1].end
         IN  (IF ps[k].start - before >= thr
              THEN <<(<<before, ps[k].start, <<"long_silence">>>>)>> ELSE <<>>)
             \o (IF ps[k].action = "remove"
                 THEN <<(<<ps[k].start, ps[k].end, <<ps[k].reason>>>>)>> ELSE <<>>)
             \o WalkRemoves(ps, thr, k + 1)

\* C18: the plan is that of a walk over the paragraphs in an ascending order
\* of start: a "long_silence" remove segment [prev_end, start) before a
\* paragraph exactly when start - prev_end >= threshold, prev_end being 0 at
\* first and then the end of the paragraph walked before, kept or removed;
\* then one keep segment for a kept paragraph, or one remove segment with the
\* paragraph's reason for a removed one, from the paragraph's start to its end.
C18_WalkOfParagraphs ==
    pc = "planned" =>
        \E order \in WalkOrders(Len(paragraphs)) :
            LET ps == [i \in DOMAIN paragraphs |-> paragraphs[order[i]]]
                kept == SelectSeq(ps, LAMBDA p : p.action = "keep")
                plan == cut_plan[1]
            IN  /\ \A i \in 1..(Len(ps) - 1) : ps[i].start <= ps[i + 1].start
                /\ [i \in DOMAIN plan.keep_segments |->
                       <<plan.keep_segments[i].start, plan.keep_segments[i].end,
                         plan.keep_segments[i].reason>>]
                     = [i \in DOMAIN kept |-> <<kept[i].start, kept[i].end, <<>>>>]
                /\ [i \in DOMAIN plan.remove_segments |->
                       <<plan.remove_segments[i].start, plan.remove_segments[i].end,
                         plan.remove_segments[i].reason>>]
                     = WalkRemoves(ps, threshold, 1)

\* Paragraphs given out of order; a removed paragraph is followed at once by a
\* kept one with no silence between them, and a silence is cut elsewhere.
C18_Witness ==
    /\ pc = "planned"
    /\ threshold > 0
    /\ \E i, j \in DOMAIN paragraphs :
          /\ i < j
          /\ paragraphs[j].start < paragraphs[i].start
          /\ paragraphs[j].action = "remove"
          /\ paragraphs[i].action = "keep"
          /\ paragraphs[i].start - paragraphs[j].end < threshold
          /\ paragraphs[i].start - paragraphs[j].end >= 0
          /\ paragraphs[j].start >= threshold
    /\ cut_plan[1].stats.silences_removed >= 1
    /\ cut_plan[1].stats.duplicates_removed >= 1

(***************************************************************************)
(* The words map_words_to_timeline emits.                                  *)
(***************************************************************************)
\* The sum of the durations of the segments before the k-th.
RECURSIVE EarlierDurations(_, _)
EarlierDurations(segs, k) ==
    IF k = 1 THEN 0
    ELSE EarlierDurations(segs, k - 1) + (segs[k - 1].end - segs[k - 1].start)

\* The words emitted for the segments from the k-th on: for each segment the
\* words that start in it, in their order, on the output timeline.
RECURSIVE EmittedFrom(_, _, _)
EmittedFrom(ws, segs, k) ==
    IF k > Len(segs) THEN <<>>
    ELSE LET seg == segs[k]
             offset == EarlierDurations(segs, k)
             inside == SelectSeq(ws, LAMBDA w : seg.start <= w.start /\ w.start < seg.end)
             ends(w) == IF w.end <= seg.end THEN w.end ELSE seg.end
         IN  [i \in DOMAIN inside |->
                 [word |-> inside[i].word,
                  start |-> offset + (inside[i].start - seg.start),
                  end |-> offset + ends(inside[i]) - seg.start]]
             \o EmittedFrom(ws, segs, k + 1)

\* C19: map_words_to_timeline emits, for each keep segment in the given order,
\* exactly the words with segment.start <= word.start < segment.end, each with
\* start = offset + (word.start - segment.start) and
\* end = offset + min(word.end, segment.end) - segment.start, offset being the
\* sum of the durations of the earlier keep segments; a word whose start lies
\* in no keep segment is not emitted.
C19_EmittedWords ==
    pc \in {"mapped", "no_words"} =>
        /\ timeline_words = EmittedFrom(words, keep_segments, 1)
        /\ Len(timeline_words)
             = Cardinality({ik \in (DOMAIN words) \X (DOMAIN keep_segments) :
                               /\ keep_segments[ik[2]].start <= words[ik[1]].start
                               /\ words[ik[1]].start < keep_segments[ik[2]].end})

\* Two keep segments apart from each other; a word of the first is emitted
\* clamped to the segment's end, a word between them is dropped and a word of
\* the second is emitted.
C19_Witness ==
    /\ pc = "mapped"
    /\ Len(keep_segments) = 2
    /\ keep_segments[2].start > keep_segments[1].end
    /\ \E i \in DOMAIN words :
          /\ keep_segments[1].start <= words[i].start
          /\ words[i].start < keep_segments[1].end
          /\ words[i].end > keep_segments[1].end
    /\ \E i \in DOMAIN words :
          /\ keep_segments[2].start <= words[i].start
          /\ words[i].start < keep_segments[2].end
    /\ \E i \in DOMAIN words :
          /\ keep_segments[1].end <= words[i].start
          /\ words[i].start < keep_segments[2].start
    /\ Len(timeline_words) < Len(words)

(***************************************************************************)
(* The lines group_words_into_lines emits.                                 *)
(***************************************************************************)
\* The text of the words a..b of ws on one line: the words without the blanks
\* around them, those that are not empty joined by single spaces.
RECURSIVE JoinedText(_, _, _)
JoinedText(ws, a, b) ==
    IF a > b THEN ""
    ELSE LET rest == JoinedText(ws, a + 1, b)
             w == Strip(ws[a].word)
         IN  IF w = "" THEN rest
             ELSE IF rest = "" THEN w
             ELSE w \o " " \o rest

\* C20: the lines are consecutive runs of the input words that together hold
\* every word once in input order, the last run ending with the last word; a
\* line's start and end are those of its first and last word; and a line is
\* closed before a word only if it holds max_words words or its text with the
\* word appended is longer than max_chars.  Nine short words with max_words = 8
\* give a line of the first eight and a line of the ninth alone.
C20_GreedyPartition ==
    pc = "grouped" =>
        /\ \E ends \in Chunkings(Len(timeline_words)) :
              /\ Len(subtitle_lines) = Len(ends)
              /\ \A k \in DOMAIN subtitle_lines :
                    LET first == ChunkFirst(ends, k)
                    IN  /\ subtitle_lines[k].start = timeline_words[first].start
                        /\ subtitle_lines[k].end = timeline_words[ends[k]].end
                        /\ subtitle_lines[k].text
                             = JoinedText(timeline_words, first, ends[k])
                        /\ k < Len(subtitle_lines) =>
                              \/ ends[k] - first + 1 >= max_words
                              \/ Len(JoinedText(timeline_words, first, ends[k] + 1))
                                   > max_chars
        /\ (timeline_words = NineWords /\ max_words = 8) =>
              subtitle_lines
                = <<[start |-> 0, end |-> 23,
                     text |-> "one two three four five six seven eight"],
                    [start |-> 24, end |-> 26, text |-> "nine"]>>

\* The nine words grouped with max_words = 8: the ninth would fit by its
\* length and is on a line of its own.
C20_Witness ==
    /\ pc = "grouped"
    /\ timeline_words = NineWords
    /\ max_words = 8
    /\ Len(JoinedText(timeline_words, 1, 9)) <= max_chars
    /\ Len(subtitle_lines) = 2
    /\ subtitle_lines[2].text = "nine"

(***************************************************************************)
(* One call of a mutating method.                                          *)
(***************************************************************************)
\* The segments of the first video track of a project, <<>> without one.
VideoTrackSegments(p) ==
    LET found == FirstTrack(p.content.tracks, "video")
    IN  IF found = 0 THEN <<>> ELSE p.content.tracks[found].segments

\* The call was apply_cut_plan with keep segments, for the path of a video
\* material, on a project with a video track.
CutPlanApplies ==
    /\ pc = "mutated"
    /\ tool.name = "apply_cut_plan"
    /\ tool.keep # <<>>
    /\ \E i \in DOMAIN original[1].content.materials.videos :
          original[1].content.materials.videos[i].path = tool.video_path
    /\ FirstTrack(original[1].content.tracks, "video") # 0

\* C21: after apply_cut_plan with keep segments and the path of a material,
\* the video track holds one new segment per keep segment, in their order, and
\* none of the segments it held; the first starts at 0 on the timeline, each
\* other starts where the one before it ends, and each has the source start of
\* its keep segment.
C21_TrackRebuiltBackToBack ==
    CutPlanApplies =>
        LET before == VideoTrackSegments(original[1])
            after == VideoTrackSegments(project[1])
        IN  /\ Len(after) = Len(tool.keep)
            /\ \A i \in DOMAIN after :
                  /\ \A j \in DOMAIN before : after[i].id # before[j].id
                  /\ \A j \in DOMAIN after : i # j => after[i].id # after[j].id
                  /\ after[i].source_timerange.start = ToMicroseconds(tool.keep[i].start)
                  /\ after[i].target_timerange.start
                       = IF i = 1 THEN 0
                         ELSE after[i - 1].target_timerange.start
                              + after[i - 1].target_timerange.duration

\* Two keep segments given out of order replace two segments; the second new
\* segment starts after 0.
C21_Witness ==
    /\ CutPlanApplies
    /\ Len(tool.keep) = 2
    /\ tool.keep[2].start < tool.keep[1].start
    /\ Len(VideoTrackSegments(original[1])) = 2
    /\ VideoTrackSegments(project[1])[2].target_timerange.start > 0

\* The call was apply_cut_plan with no keep segment, for a path no material
\* has, or on a project without a video track.
CutPlanDoesNotApply ==
    /\ pc = "mutated"
    /\ tool.name = "apply_cut_plan"
    /\ \/ tool.keep = <<>>
       \/ \A i \in DOMAIN original[1].content.materials.videos :
             original[1].content.materials.videos[i].path # tool.video_path
       \/ FirstTrack(original[1].content.tracks, "video") = 0

\* C22: apply_cut_plan with no keep segment, with a path no material has, or on
\* a project without a video track returns and leaves the tracks, the
\* materials and the duration fields of both documents as they were.
C22_CutPlanNoOp ==
    CutPlanDoesNotApply =>
        /\ project[1].content.tracks = original[1].content.tracks
        /\ project[1].content.materials = original[1].content.materials
        /\ project[1].content["duration"] = original[1].content["duration"]
        /\ project[1].meta["tm_duration"] = original[1].meta["tm_duration"]

\* Keep segments applied for "/v/c.mp4" to a project with video segments whose
\* material is written "/v//c.mp4".
C22_Witness ==
    /\ CutPlanDoesNotApply
    /\ tool.keep # <<>>
    /\ tool.video_path = "/v/c.mp4"
    /\ \E i \in DOMAIN original[1].content.materials.videos :
          original[1].content.materials.videos[i].path = "/v//c.mp4"
    /\ VideoTrackSegments(original[1]) # <<>>
    /\ VideoTrackSegments(project[1]) = VideoTrackSegments(original[1])

\* The segments of the first text track of a project, <<>> without one.
TextTrackSegments(p) ==
    LET found == FirstTrack(p.content.tracks, "text")
    IN  IF found = 0 THEN <<>> ELSE p.content.tracks[found].segments

\* The call was add_text_track with captions.
CaptionsAdded ==
    /\ pc = "mutated"
    /\ tool.name = "add_text_track"
    /\ tool.subtitles # <<>>

\* The segments the call appended to the text track, in caption order.
AddedTextSegments ==
    LET after == TextTrackSegments(project[1])
    IN  SubSeq(after, Len(after) - Len(tool.subtitles) + 1, Len(after))

\* The vertical placement of a text segment, in tenths of the screen height:
\* the segment holds position_y - 0.5.
PlacementOf(seg) == seg.transform_y + 5

\* C23: with position_y 0.8 the captions of a call are placed at 0.8 and 0.2
\* in turn, the first (k = 0) at 0.8, every even k at 0.8 and every odd k at
\* 0.2; with another position_y every caption is placed at that position.
C23_CaptionsAlternate ==
    CaptionsAdded =>
        /\ Len(TextTrackSegments(project[1])) >= Len(tool.subtitles)
        /\ \A i \in DOMAIN AddedTextSegments :
              PlacementOf(AddedTextSegments[i])
                = IF tool.position_y = 8
                  THEN (IF (i - 1) % 2 = 0 THEN 8 ELSE 2)
                  ELSE tool.position_y

\* Three captions added with the default position to a project that has a
\* caption: bottom, top, bottom.
C23_Witness ==
    /\ CaptionsAdded
    /\ tool.position_y = 8
    /\ Len(tool.subtitles) = 3
    /\ TextTrackSegments(original[1]) # <<>>
    /\ PlacementOf(AddedTextSegments[1]) = 8
    /\ PlacementOf(AddedTextSegments[2]) = 2
    /\ PlacementOf(AddedTextSegments[3]) = 8

\* C24: add_text_track with n >= 1 captions appends n text materials and n
\* text segments, the i-th of each for the i-th caption; the segments go to a
\* new text track, the only track added, when the project had no text track,
\* and to the end of the existing text track otherwise; the segments the text
\* track held, every other track and the materials held before are unchanged.
\* With no caption the call changes nothing.
C24_CaptionsAppended ==
    (pc = "mutated" /\ tool.name = "add_text_track") =>
        LET before == original[1].content
            after == project[1].content
            n == Len(tool.subtitles)
            had == FirstTrack(before.tracks, "text")
            at == FirstTrack(after.tracks, "text")
        IN  IF n = 0 THEN project = original
            ELSE /\ after.materials.videos = before.materials.videos
                 /\ Len(after.materials.texts) = Len(before.materials.texts) + n
                 /\ SubSeq(after.materials.texts, 1, Len(before.materials.texts))
                      = before.materials.texts
                 /\ TextTrackSegments(project[1])
                      = TextTrackSegments(original[1]) \o AddedTextSegments
                 /\ \A i \in 1..n :
                       LET material == after.materials.texts[Len(before.materials.texts) + i]
                           segment == AddedTextSegments[i]
                       IN  /\ material.text = tool.subtitles[i].text
                           /\ segment.material_id = material.id
                           /\ segment.target_timerange.start
                                = ToMicroseconds(tool.subtitles[i].start)
                 /\ IF had = 0
                    THEN /\ Len(after.tracks) = Len(before.tracks) + 1
                         /\ at = Len(after.tracks)
                         /\ SubSeq(after.tracks, 1, Len(before.tracks)) = before.tracks
                    ELSE /\ Len(after.tracks) = Len(before.tracks)
                         /\ at = had
                         /\ \A j \in DOMAIN after.tracks :
                               j # had => after.tracks[j] = before.tracks[j]
                         /\ after.tracks[had].id = before.tracks[had].id

\* Two captions added to a project with a video segment and a caption.
C24_Witness ==
    /\ CaptionsAdded
    /\ Len(tool.subtitles) = 2
    /\ VideoTrackSegments(original[1]) # <<>>
    /\ Len(TextTrackSegments(original[1])) = 1
    /\ Len(TextTrackSegments(project[1])) = 3
    /\ Len(project[1].content.materials.texts) = 3

(***************************************************************************)
(* The duration of a project.                                              *)
(***************************************************************************)
\* The ends, on the timeline, of the segments of all tracks of a document.
SegmentEnds(content) ==
    UNION {{content.tracks[t].segments[i].target_timerange.start
            + content.tracks[t].segments[i].target_timerange.duration :
               i \in DOMAIN content.tracks[t].segments} :
              t \in DOMAIN content.tracks}

\* The duration a document carries is the greatest end of its segments, 0
\* when it has none.
DurationDerived(content) ==
    /\ \A e \in SegmentEnds(content) : e <= content["duration"]
    /\ content["duration"] \in SegmentEnds(content) \cup {0}

\* C25: the duration CapCutDraft writes, and the duration of a loaded project
\* after any calls of add_text_track, apply_cut_plan and update_video_segments,
\* is the maximum of timeline start + duration over the segments of all
\* tracks, video and text, and 0 when there is no segment.
C25_DurationIsMaxSegmentEnd ==
    /\ \A dir \in Directories : DurationDerived(ContentOf(dir))
    /\ (pc = "project" /\ project # <<>>) => DurationDerived(project[1].content)

\* A caption added to a loaded project ends after its last video segment and
\* sets the duration.
C25_Witness ==
    /\ pc = "project"
    /\ project # <<>>
    /\ VideoTrackSegments(project[1]) # <<>>
    /\ \E i \in DOMAIN TextTrackSegments(project[1]) :
          LET seg == TextTrackSegments(project[1])[i]
          IN  /\ seg.target_timerange.start + seg.target_timerange.duration
                   = project[1].content["duration"]
              /\ \A j \in DOMAIN VideoTrackSegments(project[1]) :
                    VideoTrackSegments(project[1])[j].target_timerange.start
                    + VideoTrackSegments(project[1])[j].target_timerange.duration
                      < project[1].content["duration"]
    /\ project[1].content["duration"] # disk[<<OriginalDir, ContentFile>>]["duration"]

(***************************************************************************)
(* save() and the file system.                                             *)
(***************************************************************************)
\* C26: save() sets one new modification time in both documents and writes
\* both files in the call.  When the write of a file fails the call raises:
\* the file is not written again, a file written before it stays written and
\* a file after it is left as it was.
C26_SaveWritesBothOrRaises ==
    [][SaveProjectFiles =>
          LET dir == project[1].project_path
              content == <<dir, ContentFile>>
              meta == <<dir, MetaFile>>
              saved == project'[1]
              fault == tool'.fault
          IN  /\ saved.content["update_time"] = tool'.time
              /\ saved.meta["tm_draft_modified"] = tool'.time
              /\ (pc' = "save_raised") <=> (fault # "none")
              /\ fault = "none" =>
                    (disk'[content] = saved.content /\ disk'[meta] = saved.meta)
              /\ fault \in {"content_open", "content_write"} =>
                    /\ disk'[meta] = disk[meta]
                    /\ disk'[content] = IF fault = "content_open"
                                        THEN disk[content] ELSE Truncated
              /\ fault \in {"meta_open", "meta_write"} =>
                    /\ disk'[content] = saved.content
                    /\ disk'[meta] = IF fault = "meta_open"
                                     THEN disk[meta] ELSE Truncated
              /\ \A k \in DOMAIN disk' : k \in {content, meta} \/ disk'[k] = disk[k]
    ]_vars

\* A renamed and captioned project was saved up to the metadata file, whose
\* write failed: the content file holds the new document, the metadata file
\* does not.
C26_Witness ==
    /\ pc = "save_raised"
    /\ tool.name = "save"
    /\ tool.fault = "meta_write"
    /\ disk[<<OriginalDir, ContentFile>>] = project[1].content
    /\ disk[<<OriginalDir, ContentFile>>]["name"] = "Cut"
    /\ disk[<<OriginalDir, ContentFile>>]["update_time"] > 0
    /\ disk[<<OriginalDir, MetaFile>>] = Truncated
    /\ original[1].content["name"] = "Cut"

\* A metadata document parses when the file holds a whole JSON object and the
\* summary fields in it, where present, have their types: the name a string,
\* the modified time an integer, the duration a number.
MetadataParses(meta) ==
    /\ meta # Truncated
    /\ "draft_name" \in DOMAIN meta => meta["draft_name"].json = "string"
    /\ "tm_draft_modified" \in DOMAIN meta =>
           (meta["tm_draft_modified"].json = "number" /\ meta["tm_draft_modified"].int \in Int)
    /\ "tm_duration" \in DOMAIN meta => meta["tm_duration"].json = "number"

\* The folders of the drafts directory whose metadata document exists and
\* parses.
ParsedFolders ==
    {folder \in {k[1] : k \in DOMAIN disk} :
        /\ <<folder, MetaFile>> \in DOMAIN disk
        /\ MetadataParses(disk[<<folder, MetaFile>>])}

\* C27: list_projects always returns: its listing has one entry for exactly
\* the folders under the root whose metadata document exists and parses, in
\* the order of modified time descending; a folder whose metadata document is
\* corrupted is left out and the other projects stay in the listing, whatever
\* the state of their content files.
C27_ListingOfParsedProjects ==
    /\ pc = "listing" => ENABLED ListProjects
    /\ (pc = "listed" /\ tool.name = "list_projects") =>
          LET projects == tool.projects
          IN  /\ {projects[i].path : i \in DOMAIN projects} = ParsedFolders
              /\ Len(projects) = Cardinality(ParsedFolders)
              /\ \A i \in DOMAIN projects :
                    LET meta == disk[<<projects[i].path, MetaFile>>]
                    IN  projects[i].modified_time =
                           Get(meta, "tm_draft_modified", JNumber(0)).int
              /\ \A i, j \in DOMAIN projects :
                    i < j => projects[i].modified_time >= projects[j].modified_time

\* Three folders met oldest first: the first has a cut-short metadata file,
\* the second is older than the third, whose content file is cut short; the
\* listing is the third, then the second.
C27_Witness ==
    /\ pc = "listed"
    /\ tool.name = "list_projects"
    /\ tool.folders = <<1, 2, 3>>
    /\ <<1, MetaFile>> \in DOMAIN disk
    /\ disk[<<1, MetaFile>>] = Truncated
    /\ <<3, DraftContentFile>> \in DOMAIN disk
    /\ disk[<<3, DraftContentFile>>] = Truncated
    /\ Len(tool.projects) = 2
    /\ tool.projects[1].path = 3
    /\ tool.projects[2].path = 2
    /\ tool.projects[1].modified_time > tool.projects[2].modified_time

\* The kept segment k of a processed video is on the video track of p: a
\* segment of a material of that video, from the source start of k and of its
\* length, in microseconds.
KeptSegmentOnTrack(p, video_path, k) ==
    \E j \in DOMAIN VideoTrackSegments(p) :
        LET seg == VideoTrackSegments(p)[j]
        IN  /\ PathStr(MaterialPath(p.content.materials.videos, seg.material_id)) = video_path
            /\ seg.source_timerange.start = ToMicroseconds(k.start)
            /\ seg.source_timerange.duration =
                   ToMicroseconds(k.end) - ToMicroseconds(k.start)

\* C28: after smart_cut_project succeeds on a project with a video track
\* and several existing source videos, each under the path its material
\* gives, the video track of the copy holds the kept segments of every video
\* it processed.
C28_AllProcessedVideosKept ==
    (/\ pc = "tool_returned"
     /\ tool.name = "smart_cut_project"
     /\ tool.result = "ok"
     /\ Len(tool.processed) >= 2
     /\ FirstTrack(original[1].content.tracks, "video") # 0
     /\ \A i \in DOMAIN tool.processed :
           _find_material_id_for_path(original[1], tool.processed[i].video_path) # <<>>) =>
        \A i \in DOMAIN tool.processed :
            \A k \in DOMAIN tool.processed[i].keep :
                KeptSegmentOnTrack(project[1], tool.processed[i].video_path,
                                   tool.processed[i].keep[k])

\* A caption of p shows the word at its time: a text segment whose time range
\* holds the word's, of a text material whose text holds the word.
WordCaptioned(p, w) ==
    \E j \in DOMAIN TextTrackSegments(p) :
        LET seg == TextTrackSegments(p)[j]
            texts == p.content.materials.texts
        IN  /\ seg.target_timerange.start <= ToMicroseconds(w.start)
            /\ ToMicroseconds(w.end) <=
                   seg.target_timerange.start + seg.target_timerange.duration
            /\ \E m \in DOMAIN texts :
                  /\ texts[m].id = seg.material_id
                  /\ \E a, b \in 1..Len(texts[m].text) :
                        SubSeq(texts[m].text, a, b) = w.word

\* C29: when add_subtitles_to_project has a transcription with words, given
\* or made from the project's video, and no SRT file, it returns with the
\* copy saved, at least one caption added to the copy, and every transcribed
\* word in a caption of the copy at its original time.
C29_TranscriptionCaptioned ==
    (/\ pc = "tool_returned"
     /\ tool.name = "add_subtitles_to_project"
     /\ tool.source # "srt"
     /\ tool.transcription # <<>>) =>
        /\ tool.result = "ok"
        /\ Len(TextTrackSegments(project[1])) > Len(TextTrackSegments(original[1]))
        /\ \A i \in DOMAIN tool.transcription :
              WordCaptioned(project[1], tool.transcription[i])

\* C30: for the same keep segments, the video segments generate_capcut_project
\* adds to a new draft and the video segments apply_cut_plan builds in a
\* project with a video track and a material of the video have, position by
\* position, the same timeline start, the same duration and the same source
\* start in microseconds.
C30_SameTimeline ==
    (/\ pc = "applied"
     /\ FirstTrack(original[1].content.tracks, "video") # 0
     /\ _find_material_id_for_path(original[1], tool.video_path) # <<>>) =>
        LET created == draft[1].video_segments
            edited == VideoTrackSegments(project[1])
        IN  /\ Len(created) = Len(edited)
            /\ \A i \in DOMAIN created :
                  /\ created[i].timeline_start_us = edited[i].target_timerange.start
                  /\ created[i].duration_us = edited[i].target_timerange.duration
                  /\ created[i].source_start_us = edited[i].source_timerange.start

====
